---------------------------- MODULE Spec2Model ----------------------------
(***************************************************************************)
(* Crawl orchestration of the BPK / peraturan.go.id scrapers:              *)
(*   - BPKScraper.scrape_all_with_validation and _scrape_page_with_retry   *)
(*     (src/src/scrapers/bpk_scraper.py),                                  *)
(*   - EnhancedPerdaScraper.scrape_all_with_validation,                    *)
(*     process_page_task_enhanced, scrape_page_enhanced and                *)
(*     validate_page_items (src/src/scraper_enhanced.py),                  *)
(*   - BaseScraper.save_scraping_state / load_scraping_state               *)
(*     (src/src/core/base_scraper.py),                                     *)
(*   - PerdaDatabase.insert_perda / log_scraping / merge_worker_databases  *)
(*     (src/src/database.py),                                              *)
(*   - download_pdf of both scrapers and the item loops that call it,      *)
(*   - make_request_with_retry, the rate limiter and get_thread_session,   *)
(*   - the locks of the enhanced scraper, ErrorTracker and the seeding of  *)
(*     the page queue.                                                     *)
(*                                                                         *)
(* Thirteen specifications share the variables:                            *)
(*   Spec         one scraper (BPK or enhanced) running, being interrupted *)
(*                and being restarted from its checkpoint file;            *)
(*   SpecLowItems the same, with a page that always gives 10 items;        *)
(*   SpecMerge    worker shards being filled and merged into the canonical *)
(*                SQLite store;                                            *)
(*   SpecValidate the page validator applied to every input;               *)
(*   SpecCheckpoint the checkpoint file being saved, torn and loaded;      *)
(*   SpecDownload the items of one page being downloaded and stored;       *)
(*   SpecLimiter  the pool threads of the enhanced scraper issuing their   *)
(*                listing, detail and artifact requests;                   *)
(*   SpecRequest  one make_request_with_retry call under tenacity;         *)
(*   SpecSession  threads asking for their network session;                *)
(*   SpecLocks    the pool threads and the scheduler taking and leaving    *)
(*                data_lock, progress_lock, session_lock and the limiter;  *)
(*   SpecErrors   pool threads calling record_error and mark_resolved;     *)
(*   SpecLive     Spec without restarts, with the fairness of a run;       *)
(*   SpecSeed     the page queue being seeded and handed to the pool.      *)
(***************************************************************************)
EXTENDS Integers, Sequences, FiniteSets, TLC

VARIABLES
    mode,                \* which scraper class runs: "bpk" | "enh"
    max_retries,         \* self.max_retries
    max_workers,         \* self.max_workers
    min_items_per_page,  \* self.min_items_per_page
    site,                \* per page: what a fetch of the page can give (the remote site)
    pc,                  \* position of the main thread in scrape_all_with_validation
    scraped_pages,       \* self.scraped_pages : set of int
    failed_pages,        \* self.failed_pages  : dict, keys int (set in this run) or str (loaded from JSON)
    total_items_scraped, \* self.total_items_scraped
    state_file,          \* contents of scraping_state_<source>.json, or NoFile
    status,              \* per page: state of its future / page task
    attempt,             \* per page: BPK loop variable `attempt`
    retry_count,         \* per page: PageTask.retry_count (enhanced)
    last_items,          \* per page: item count of the last fetch
    last_error,          \* per page: error kind of the last fetch, "" when none
    fetches,             \* per page: number of listing fetches issued in this run (history)
    page_queue,          \* enhanced: PriorityQueue of fresh PageTasks (page numbers)
    retry_queue,         \* enhanced: Queue of PageTasks to retry
    futures,             \* enhanced: set of submitted, not yet collected futures (page numbers)
    db_pages,            \* pages whose records were all written to the store in this run
    v_count, v_last, v_result,   \* SpecValidate: input and output of validate_page_items
    main_perda,          \* canonical perda table: set of rows
    main_seq,            \* canonical store: largest perda id ever used (sqlite_sequence)
    main_log,            \* canonical scraping_log table: set of row ids
    shards,              \* worker ordinal -> NoFile or the shard database
    clock,               \* datetime.now() as a counter
    merges,              \* history: the merge runs performed so far
    kills,               \* history: the merge runs that were killed on their way
    download_pdfs,       \* self.download_pdfs
    item_page,            \* SpecDownload: the page whose items are being handled
    items,               \* SpecDownload: the items of that page, in order
    item_pos,            \* SpecDownload: position of `for item in items`
    disk,                \* per destination path: what the file system holds there
    dl_calls,            \* history: the download_pdf calls made so far
    store_fault,         \* history: which store call raised while the page was handled
    rate_limiter,        \* self.rate_limiter: the permits the semaphore has left
    threads,             \* SpecLimiter: per phase, how many pool threads are in it
    req,                 \* SpecRequest: one make_request_with_retry call and its history
    sess,                \* self.sessions, self.session_lock and the callers of get_thread_session
    data_lock,           \* self.data_lock: the thread that holds it, 0 when free
    progress_lock,       \* self.progress_lock: the thread that holds it, 0 when free
    task_pc,             \* SpecLocks: per pool thread, its position in process_page_task_enhanced
    main_pc,             \* SpecLocks: position of the scheduler thread in the body of its loop
    held,                \* history: per thread, the locks and permits it holds
    errors,              \* self.error_tracker.errors: error type -> list of records
    rec,                 \* SpecErrors: per thread, its call of the error tracker
    total_pages,         \* SpecSeed: the total_pages that get_total_pages() returned, 0 before
    dispatched,          \* SpecSeed, history: the pages whose fresh task was submitted
    counted              \* history: per page, the len(items) last added to the total for it

cfgVars == <<mode, max_retries, max_workers, min_items_per_page, site>>
stateVars == <<scraped_pages, failed_pages, total_items_scraped, state_file>>
taskVars == <<status, attempt, retry_count, last_items, last_error, fetches>>
enhVars == <<page_queue, retry_queue, futures>>
runVars == <<pc, stateVars, taskVars, enhVars, db_pages>>
valVars == <<v_count, v_last, v_result>>
dbVars == <<main_perda, main_seq, main_log, shards, clock, merges, kills>>
dlVars == <<download_pdfs, item_page, items, item_pos, disk, dl_calls, store_fault>>
reqVars == <<rate_limiter, threads, req, sess>>
lockVars == <<data_lock, progress_lock, task_pc, main_pc, held, errors, rec,
              total_pages, dispatched>>
conVars == <<lockVars, counted>>
vars == <<cfgVars, runVars, valVars, dlVars, dbVars, reqVars, conVars>>

-----------------------------------------------------------------------------
(* Bounds of the model *)

TotalPages == 2      \* get_total_pages(): pages 1..TotalPages
MaxItemCount == 9    \* SpecValidate: item counts 0..MaxItemCount
MaxMinItems == 9     \* SpecValidate: min_items_per_page in 0..MaxMinItems
MaxTotalItems == 3   \* SpecCheckpoint: total_items_scraped in 0..MaxTotalItems

Pages == 1..TotalPages
\* Item counts a listing page can yield: none, one, below both thresholds,
\* between the thresholds, a full page.
ItemCounts == {0, 10, 18}
\* min_items_per_page: the default of BaseScraper.__init__ and of
\* EnhancedPerdaScraper.__init__
MinItemsChoices == {18}
\* max_retries: none, one, and the three of the retry scenario
\* (scraper_enhanced.py 937, the fast preset of main_unified.py)
MaxRetriesChoices == {0, 1, 3}
\* max_workers: a single worker, and workers running side by side
MaxWorkersChoices == {1, 2}
\* Worker ordinals of the shard databases
Workers == 0..1

\* A file that does not exist
NoFile == [exists |-> FALSE]

-----------------------------------------------------------------------------
(* Page validator *)

\* A validator that takes any last page, an empty one included
validate_page_items_lenient(item_count, page_num, is_last_page) ==
    IF is_last_page THEN TRUE
    ELSE ~(item_count < min_items_per_page)

\* A validator that also refuses a page of exactly min_items_per_page items
validate_page_items_strict(item_count, page_num, is_last_page) ==
    IF is_last_page THEN item_count # 0
    ELSE ~(item_count <= min_items_per_page)

\* EnhancedPerdaScraper.validate_page_items: item_count = len(items)
validate_page_items(item_count, page_num, is_last_page) ==
    IF is_last_page
    THEN item_count # 0
    ELSE ~(item_count < min_items_per_page)

-----------------------------------------------------------------------------
(* Checkpoint file *)

\* A key of the failed_pages dict: the int page number the run stores
\* (failed_pages[page_num] = ...), or the str that json.load gives back for it.
IntKey(p) == [kind |-> "int", n |-> p]
StrKey(p) == [kind |-> "str", n |-> p]

\* json.dump of the failed_pages dict: every key is written as a string; where
\* the dict holds both "5" (loaded) and 5 (stored later in the run) the object
\* gets the name twice and json.load keeps the later one, the int key's value.
json_failed_pages(fp) ==
    [k \in {StrKey(key.n) : key \in DOMAIN fp} |->
        IF IntKey(k.n) \in DOMAIN fp THEN fp[IntKey(k.n)] ELSE fp[k]]

\* A save that writes no total
save_scraping_state_no_total(sp, fp, total) ==
    [exists |-> TRUE, parses |-> TRUE,
     scraped_pages |-> sp,
     failed_pages |-> json_failed_pages(fp),
     total_items |-> 0]

\* BaseScraper.save_scraping_state / EnhancedPerdaScraper.save_scraping_state:
\* the JSON document written to the state file
save_scraping_state(sp, fp, total) ==
    [exists |-> TRUE, parses |-> TRUE,
     scraped_pages |-> sp,
     failed_pages |-> json_failed_pages(fp),
     total_items |-> total]

\* A state file that json.load cannot parse: what open(..., 'w') and a part
\* of json.dump leave when the process dies during the save (lines 184-185)
Truncated ==
    [exists |-> TRUE, parses |-> FALSE,
     scraped_pages |-> {},
     failed_pages |-> [k \in {} |-> ""],
     total_items |-> 0]

\* A load without the try/except of lines 192-203
load_scraping_state_unguarded(file, sp, fp, total) ==
    IF file.exists /\ file.parses
    THEN [scraped_pages |-> file.scraped_pages,
          failed_pages |-> file.failed_pages,
          total_items |-> file.total_items,
          raised |-> FALSE]
    ELSE [scraped_pages |-> sp, failed_pages |-> fp, total_items |-> total,
          raised |-> file.exists]

\* BaseScraper.load_scraping_state: the three fields after the call, and
\* whether the call raised.  json.load raising is caught (lines 202-203)
\* before any field is assigned.
load_scraping_state(file, sp, fp, total) ==
    IF file.exists /\ file.parses
    THEN [scraped_pages |-> file.scraped_pages,
          failed_pages |-> file.failed_pages,
          total_items |-> file.total_items,
          raised |-> FALSE]
    ELSE [scraped_pages |-> sp, failed_pages |-> fp, total_items |-> total,
          raised |-> FALSE]

\* failed_pages[key] = value
DictSet(d, key, value) ==
    [k \in DOMAIN d \cup {key} |-> IF k = key THEN value ELSE d[k]]

EmptyDict == [k \in {} |-> ""]

-----------------------------------------------------------------------------
(* BPKScraper *)

\* parse_page raising (bpk_scraper.py 136-141), as a fetch outcome beside the
\* item counts
FetchError == -1
FetchOutcomes == ItemCounts \cup {FetchError}

\* page_to_worker = {page: idx % max_workers for idx, page in enumerate(pages_to_scrape)}
page_to_worker(p) ==
    Cardinality({q \in Pages : status[q] # "none" /\ q < p}) % max_workers

\* The store that the records of an accepted page p are written to: BPK,
\* worker_db = self.get_worker_db(worker_id) with the worker_id the future
\* returned (lines 327-349); enhanced, self.db (line 602)
record_store(p) ==
    IF mode = "bpk" THEN [kind |-> "shard", worker |-> page_to_worker(p)]
    ELSE [kind |-> "canonical", worker |-> 0]

\* for attempt in range(self.max_retries)
bpk_loop_continues(att) == att < max_retries

\* if attempt < self.max_retries - 1
bpk_may_retry(att) == att < max_retries - 1

\* the validation of _scrape_page_with_retry:
\* len(items) < self.min_items_per_page and item_page < self.get_total_pages()
bpk_low_items(n, p) == n < min_items_per_page /\ p < TotalPages

Running == {p \in Pages : status[p] = "running"}
Queued == {p \in Pages : status[p] = "queued"}

\* scrape_all_with_validation, lines 294-320: load the checkpoint, choose the
\* pages to scrape and submit one future per page
BpkLoad ==
    /\ mode = "bpk" /\ pc = "start"
    /\ LET st == load_scraping_state(state_file, scraped_pages, failed_pages,
                                     total_items_scraped)
       IN /\ scraped_pages' = st.scraped_pages
          /\ failed_pages' = st.failed_pages
          /\ total_items_scraped' = st.total_items
          /\ status' = [p \in Pages |->
                           IF p \in st.scraped_pages THEN "none" ELSE "queued"]
    /\ pc' = "pool"
    /\ UNCHANGED <<cfgVars, conVars, reqVars, state_file, attempt, retry_count, last_items,
                   last_error, fetches, enhVars, db_pages,
                   valVars, dlVars, dbVars>>

\* A pool thread takes the next submitted work item (submission order), when
\* fewer than max_workers are running.  The executor's threads keep taking work
\* while the main thread is leaving the with-block (shutdown(wait=True)).
BpkStart(p) ==
    /\ mode = "bpk" /\ pc \in {"pool", "aborting"}
    /\ status[p] = "queued"
    /\ \A q \in Queued : p <= q
    /\ Cardinality(Running) < max_workers
    /\ status' = [status EXCEPT ![p] = "running"]
    /\ UNCHANGED <<cfgVars, conVars, reqVars, pc, stateVars, attempt, retry_count, last_items,
                   last_error, fetches, enhVars, db_pages,
                   valVars, dlVars, dbVars>>

\* One iteration of the loop of _scrape_page_with_retry (lines 406-428)
BpkAttempt(p) ==
    /\ mode = "bpk" /\ pc \in {"pool", "aborting"}
    /\ status[p] = "running"
    /\ IF ~bpk_loop_continues(attempt[p])
       THEN \* the loop is over: return (worker_id, [])
            /\ status' = [status EXCEPT ![p] = "returned"]
            /\ last_items' = [last_items EXCEPT ![p] = 0]
            /\ UNCHANGED <<attempt, fetches>>
       ELSE \E o \in site[p] :
            /\ fetches' = [fetches EXCEPT ![p] = @ + 1]
            /\ IF o = FetchError
               THEN /\ UNCHANGED last_items
                    /\ IF bpk_may_retry(attempt[p])
                       THEN /\ attempt' = [attempt EXCEPT ![p] = @ + 1]
                            /\ UNCHANGED status
                       ELSE /\ status' = [status EXCEPT ![p] = "raised"]
                            /\ UNCHANGED attempt
               ELSE /\ last_items' = [last_items EXCEPT ![p] = o]
                    /\ IF bpk_low_items(o, p) /\ bpk_may_retry(attempt[p])
                       THEN /\ attempt' = [attempt EXCEPT ![p] = @ + 1]
                            /\ UNCHANGED status
                       ELSE /\ status' = [status EXCEPT ![p] = "returned"]
                            /\ UNCHANGED attempt
    /\ UNCHANGED <<cfgVars, conVars, reqVars, pc, stateVars, retry_count, last_error, enhVars,
                   db_pages, valVars, dlVars, dbVars>>

\* What the body of `for future in as_completed(futures)` (lines 324-372) can
\* meet in the store: nothing, worker_db.insert_perda raising (line 349), or
\* worker_db.log_scraping raising (line 355)
StoreFaults == {"none", "insert", "log"}

\* the page recorded as scraped (lines 351-353)
bpk_mark_scraped(sp, p) == sp \cup {p}

\* the except branch (lines 367-370): failed_pages[page_num] = str(e)
bpk_mark_failed(fp, p, e) == DictSet(fp, IntKey(p), e)

\* The main thread handles one completed future (lines 324-372).  main_ok is
\* whether self.db.log_scraping of the except branch (line 372) succeeds; when
\* it raises, the exception leaves the loop (line 399).
BpkHandle(p) ==
    /\ mode = "bpk" /\ pc = "pool"
    /\ status[p] \in {"returned", "raised"}
    /\ status' = [status EXCEPT ![p] = "handled"]
    /\ attempt' = [attempt EXCEPT ![p] = 0]
    /\ last_items' = [last_items EXCEPT ![p] = 0]
    /\ fetches' = [fetches EXCEPT ![p] = 0]
    /\ \E fault \in StoreFaults, main_ok \in BOOLEAN :
       LET n == last_items[p]
           raised == status[p] = "raised"
           stored == ~raised /\ n > 0 /\ fault # "insert"
           excepted == raised \/ (n > 0 /\ fault # "none")
           err == "error"
       IN /\ (raised \/ n = 0) => fault = "none"
          /\ ~excepted => main_ok
          /\ scraped_pages' = IF stored THEN bpk_mark_scraped(scraped_pages, p)
                              ELSE scraped_pages
          /\ total_items_scraped' = IF stored THEN total_items_scraped + n
                                    ELSE total_items_scraped
          /\ counted' = IF stored THEN [counted EXCEPT ![p] = n] ELSE counted
          /\ db_pages' = IF stored THEN db_pages \cup {p} ELSE db_pages
          /\ failed_pages' = IF excepted THEN bpk_mark_failed(failed_pages, p, err)
                             ELSE failed_pages
          /\ pc' = IF main_ok THEN pc ELSE "aborting"
    /\ UNCHANGED <<cfgVars, lockVars, reqVars, state_file, retry_count, last_error,
                   enhVars, valVars, dlVars, dbVars>>

\* KeyboardInterrupt in the main thread while it waits in as_completed
BpkInterrupt ==
    /\ mode = "bpk" /\ pc = "pool"
    /\ pc' = "aborting"
    /\ UNCHANGED <<cfgVars, conVars, reqVars, stateVars, taskVars, enhVars, db_pages, valVars, dlVars,
                   dbVars>>

\* Leaving the with-block joins the pool's threads; then the except clauses
\* (lines 395-402) save the state and re-raise
BpkAbortSave ==
    /\ mode = "bpk" /\ pc = "aborting"
    /\ Running = {} /\ Queued = {}
    /\ state_file' = save_scraping_state(scraped_pages, failed_pages,
                                         total_items_scraped)
    /\ pc' = "raised"
    /\ UNCHANGED <<cfgVars, conVars, reqVars, scraped_pages, failed_pages, total_items_scraped,
                   taskVars, enhVars, db_pages, valVars, dlVars, dbVars>>

\* All futures handled: merge the worker databases (SpecMerge follows the
\* store through it) and save the final state (lines 374-393)
BpkFinish ==
    /\ mode = "bpk" /\ pc = "pool"
    /\ \A p \in Pages : status[p] \in {"none", "handled"}
    /\ state_file' = save_scraping_state(scraped_pages, failed_pages,
                                         total_items_scraped)
    /\ pc' = "done"
    /\ UNCHANGED <<cfgVars, conVars, reqVars, scraped_pages, failed_pages, total_items_scraped,
                   taskVars, enhVars, db_pages, valVars, dlVars, dbVars>>

-----------------------------------------------------------------------------
(* EnhancedPerdaScraper *)

total_expected == 19686   \* self.total_expected
max_pages_cap == 2000     \* max_pages = min(total_pages, 2000)

Min(a, b) == IF a < b THEN a ELSE b
Range(q) == {q[i] : i \in 1..Len(q)}

\* A low-items test that rejects whatever the retry count
enh_rejects_whenever(n, p, rc, is_last_page) ==
    ~validate_page_items(n, p, is_last_page)

\* scrape_page_enhanced, lines 511-516: the page is reported as a low_items
\* error while retries are left
enh_rejects(n, p, rc, is_last_page) ==
    ~validate_page_items(n, p, is_last_page) /\ rc < max_retries

\* A retry test that never refuses
enh_may_retry_always(rc) == TRUE

\* process_page_task_enhanced, line 543: if task.retry_count < self.max_retries
enh_may_retry(rc) == rc < max_retries

\* process_page_task_enhanced, lines 544-550: what happens to the retry queue
\* when a retry is announced.  The task is returned to no queue: the method
\* logs "Queuing page ... for retry" and returns False.
enh_requeue(q, p) == q

\* Pages a pool thread is working on
EnhInFlight == {p \in Pages : status[p] \in {"running", "fetched"}}

\* lines 681-683: the page numbers of the PageTasks put into page_queue, in
\* the order of the puts: range(1, min(total_pages, 2000) + 1)
seed_tasks(n) == [i \in 1..Min(n, max_pages_cap) |-> i]

\* scrape_all_with_validation, lines 667-683: seed the priority queue
EnhSeed ==
    /\ mode = "enh" /\ pc = "start"
    /\ page_queue' = Range(seed_tasks(TotalPages))
    /\ status' = [p \in Pages |->
                     IF p <= Min(TotalPages, max_pages_cap) THEN "queued" ELSE "none"]
    /\ pc' = "loop"
    /\ UNCHANGED <<cfgVars, conVars, reqVars, stateVars, attempt, retry_count, last_items,
                   last_error, fetches, retry_queue, futures,
                   db_pages, valVars, dlVars, dbVars>>

\* A queue get that ignores how many tasks it was asked for
TakeAll(S, k) == S

\* The k smallest page numbers of a set (PriorityQueue.get order)
RECURSIVE TakeMin(_, _)
TakeMin(S, k) ==
    IF k <= 0 \/ S = {} THEN {}
    ELSE LET m == CHOOSE x \in S : \A y \in S : x <= y
         IN {m} \cup TakeMin(S \ {m}, k - 1)

\* The first k elements of a queue
Take(q, k) == SubSeq(q, 1, Min(Len(q), IF k < 0 THEN 0 ELSE k))
Drop(q, k) == SubSeq(q, Min(Len(q), IF k < 0 THEN 0 ELSE k) + 1, Len(q))

\* A wait that never finds a future done
wait_for_no_future(fs) == {}

\* wait_for_futures (lines 747-757): the futures of fs that are done
wait_for_futures(fs) ==
    {p \in fs : status[p] \in {"ret_true", "ret_false", "ret_exc"}}

\* One iteration of the scheduling loop (lines 691-738): submit fresh tasks,
\* submit retries, collect the futures that are done, test the early exit.
\* (The counters completed_pages and validation_retries only feed the
\* progress bar and the summary and are left out.)
\* When the loop condition is false the loop is left.
EnhLoop ==
    /\ mode = "enh" /\ pc = "loop"
    /\ IF page_queue = {} /\ futures = {} /\ retry_queue = <<>>
       THEN /\ pc' = "leaving"
            /\ UNCHANGED <<page_queue, retry_queue, futures, status,
                           retry_count, last_items, last_error, fetches>>
       ELSE LET fresh == TakeMin(page_queue, max_workers - Cardinality(futures))
                room == max_workers - Cardinality(futures) - Cardinality(fresh)
                again == Take(retry_queue, room)
                submitted == futures \cup fresh \cup Range(again)
                done == wait_for_futures(submitted)
            IN /\ page_queue' = page_queue \ fresh
               /\ retry_queue' = Drop(retry_queue, room)
               /\ futures' = submitted \ done
               /\ status' = [p \in Pages |->
                                IF p \in fresh \cup Range(again) THEN "running"
                                ELSE IF p \in done THEN "collected"
                                ELSE status[p]]
               /\ retry_count' = [p \in Pages |->
                                     IF p \in done THEN 0 ELSE retry_count[p]]
               /\ last_items' = [p \in Pages |->
                                    IF p \in done THEN 0 ELSE last_items[p]]
               /\ last_error' = [p \in Pages |->
                                    IF p \in done THEN "" ELSE last_error[p]]
               /\ fetches' = [p \in Pages |->
                                 IF p \in done THEN 0 ELSE fetches[p]]
               /\ pc' = IF total_items_scraped >= total_expected
                        THEN "leaving_early" ELSE "loop"
    /\ UNCHANGED <<cfgVars, conVars, reqVars, stateVars, attempt, db_pages, valVars, dlVars, dbVars>>

\* scrape_page_enhanced (lines 432-534) run by a pool thread.  o is what the
\* request and the parse give: FetchError for a request that failed after its
\* retries, an empty response or a parse error, else the number of items.
\* log_ok is whether self.db.log_scraping(page, n, 'success') (line 522)
\* succeeds; when it raises the method returns an "Unexpected error" (530-534).
EnhScrape(p) ==
    /\ mode = "enh" /\ pc \in {"loop", "aborting", "leaving", "leaving_early"}
    /\ status[p] = "running"
    /\ \E o \in site[p], log_ok \in BOOLEAN :
       LET is_last_page == p = TotalPages
           err == IF o = FetchError THEN "fetch"
                  ELSE IF enh_rejects(o, p, retry_count[p], is_last_page)
                       THEN "low_items"
                       ELSE IF log_ok THEN "" ELSE "unexpected"
       IN /\ (o = FetchError \/ enh_rejects(o, p, retry_count[p], is_last_page))
                => log_ok
          /\ fetches' = [fetches EXCEPT ![p] = @ + 1]
          /\ last_error' = [last_error EXCEPT ![p] = err]
          /\ last_items' = [last_items EXCEPT ![p] = IF err = "" THEN o ELSE 0]
    /\ status' = [status EXCEPT ![p] = "fetched"]
    /\ UNCHANGED <<cfgVars, conVars, reqVars, pc, stateVars, attempt, retry_count,
                   enhVars, db_pages, valVars, dlVars, dbVars>>

\* failed_pages[page_num] = {'error': ..., 'retry_count': ..., 'final_failure': True}
enh_mark_failed(fp, p, e, rc) ==
    DictSet(fp, IntKey(p), [error |-> e, retry_count |-> rc, final_failure |-> TRUE])

\* process_page_task_enhanced, lines 541-605, the part under data_lock.
\* insert_ok is whether self.db.insert_many_perda(items) (line 602) succeeds;
\* when it raises, the future ends with that exception.
EnhRecord(p) ==
    /\ mode = "enh" /\ pc \in {"loop", "aborting", "leaving", "leaving_early"}
    /\ status[p] = "fetched"
    /\ \E insert_ok \in BOOLEAN :
       LET failed == last_error[p] # ""
           retry == failed /\ enh_may_retry(retry_count[p])
           n == last_items[p]
       IN /\ failed => insert_ok
          /\ retry_count' = IF retry THEN [retry_count EXCEPT ![p] = @ + 1]
                            ELSE retry_count
          /\ retry_queue' = IF retry THEN enh_requeue(retry_queue, p)
                            ELSE retry_queue
          /\ failed_pages' = IF failed /\ ~retry
                             THEN enh_mark_failed(failed_pages, p, last_error[p],
                                                  retry_count[p])
                             ELSE failed_pages
          /\ scraped_pages' = IF failed THEN scraped_pages
                              ELSE scraped_pages \cup {p}
          /\ total_items_scraped' = IF failed THEN total_items_scraped
                                    ELSE total_items_scraped + n
          /\ counted' = IF failed THEN counted ELSE [counted EXCEPT ![p] = n]
          /\ db_pages' = IF ~failed /\ insert_ok THEN db_pages \cup {p}
                         ELSE db_pages
          /\ status' = [status EXCEPT ![p] =
                           IF failed THEN "ret_false"
                           ELSE IF insert_ok THEN "ret_true" ELSE "ret_exc"]
    /\ UNCHANGED <<cfgVars, lockVars, reqVars, pc, state_file, attempt, last_items,
                   last_error, fetches, page_queue, futures,
                   valVars, dlVars, dbVars>>

\* KeyboardInterrupt in the main thread during the scheduling loop; it leaves
\* scrape_all_with_validation through the with-block
EnhInterrupt ==
    /\ mode = "enh" /\ pc = "loop"
    /\ pc' = "aborting"
    /\ UNCHANGED <<cfgVars, conVars, reqVars, stateVars, taskVars, enhVars, db_pages, valVars, dlVars,
                   dbVars>>

\* The with-block has joined the pool's threads.  After the loop:
\* process_collected_data, save_scraping_state (lines 741-744); after an
\* interrupt: save_scraping_state in run_enhanced_scraper (src/src/main.py 44-46)
EnhFinish ==
    /\ mode = "enh" /\ pc \in {"leaving", "leaving_early", "aborting"}
    /\ EnhInFlight = {}
    /\ state_file' = save_scraping_state(scraped_pages, failed_pages,
                                         total_items_scraped)
    /\ pc' = IF pc = "leaving" THEN "done"
             ELSE IF pc = "leaving_early" THEN "done_early" ELSE "raised"
    /\ UNCHANGED <<cfgVars, conVars, reqVars, scraped_pages, failed_pages, total_items_scraped,
                   taskVars, enhVars, db_pages, valVars, dlVars, dbVars>>

-----------------------------------------------------------------------------
(* PerdaDatabase: the canonical store, the worker shards and their merge *)

MaxClock == 3     \* datetime.now() values 1..MaxClock, one for each write
MaxMerges == 2    \* calls of merge_worker_databases that are followed

Urls == {"a", "b"}

\* A shard file that does not exist.  The -wal and -shm files of a shard are
\* removed where the shard file is (lines 292-297) and are not told apart.
NoShard == [exists |-> FALSE, perda |-> {}, seq |-> 0, log |-> {}]

\* A row of the perda table (init_database, lines 54-77): id INTEGER PRIMARY
\* KEY AUTOINCREMENT, detail_url TEXT UNIQUE, updated_at; the other columns
\* carry no constraint
Row(id, url, t) == [id |-> id, detail_url |-> url, updated_at |-> t]

UrlsOf(table) == {r.detail_url : r \in table}
IdsOf(table) == {r.id : r \in table}
MaxOf(S) == IF S = {} THEN 0 ELSE CHOOSE x \in S : \A y \in S : y <= x

\* INSERT OR REPLACE of a set of rows that agree with each other on no id and
\* no detail_url: every row of the table that has the id or the detail_url of
\* a new row is deleted, then the new rows are inserted
insert_or_replace(table, rows) ==
    {m \in table : \A r \in rows : r.id # m.id /\ r.detail_url # m.detail_url}
        \cup rows

\* insert_perda (lines 109-142): INSERT OR REPLACE without an id; AUTOINCREMENT
\* gives the row the id after the largest ever used
insert_perda(db, url, now) ==
    LET id == MaxOf(IdsOf(db.perda) \cup {db.seq}) + 1
    IN [db EXCEPT !.exists = TRUE,
                  !.perda = insert_or_replace(db.perda, {Row(id, url, now)}),
                  !.seq = id]

\* log_scraping (lines 184-191): one more scraping_log row
log_scraping(log) == log \cup {MaxOf(log) + 1}

\* DETACH DATABASE worker (lines 285, 303).  The connection is opened with
\* the sqlite3 module's default isolation level: the INSERT of line 271 opens
\* a transaction that only main_conn.commit() (line 287) ends, and SQLite
\* refuses to detach a database that an open transaction has read
\* ("database worker is locked").
detach_raises(in_txn) == in_txn

\* INSERT INTO scraping_log SELECT * FROM worker.scraping_log (lines 279-282)
\* copies the ids too and aborts on an id the canonical log already holds
log_copy_raises(log, shard_log) == log \cap shard_log # {}

\* The connection main_conn of merge_worker_databases while it merges:
\*   perda, seq, log   the tables as the connection sees them
\*   c_perda, c_seq, c_log   the tables as committed
\*   in_txn     a transaction is open
\*   attached   the name `worker` is attached
\*   files      the shard files on disk
\*   merged     the shards whose merge reached the commit
\*   blocked    the shards whose ATTACH raised
Connect(perda, seq, log, files) ==
    [perda |-> perda, seq |-> seq, log |-> log,
     c_perda |-> perda, c_seq |-> seq, c_log |-> log,
     in_txn |-> FALSE, attached |-> FALSE, files |-> files, merged |-> {},
     blocked |-> {}]

\* The except branch (lines 299-305): DETACH if that is possible
merge_except(c) ==
    IF c.attached /\ ~detach_raises(c.in_txn)
    THEN [c EXCEPT !.attached = FALSE]
    ELSE c

\* ATTACH and the copy of the rows (lines 268-276)
merge_copy(c, w) ==
    [c EXCEPT !.attached = TRUE,
              !.in_txn = TRUE,
              !.perda = insert_or_replace(c.perda, c.files[w].perda),
              !.seq = MaxOf(IdsOf(c.files[w].perda) \cup {c.seq})]

\* DETACH and main_conn.commit() (lines 285-287)
merge_commit(c, w) ==
    [c EXCEPT !.attached = FALSE,
              !.in_txn = FALSE,
              !.c_perda = c.perda,
              !.c_seq = c.seq,
              !.c_log = c.log,
              !.merged = @ \cup {w}]

\* worker_db.unlink() and the unlink of its -wal and -shm files (lines 292-297)
merge_unlink(c, w) == [c EXCEPT !.files = [@ EXCEPT ![w] = NoShard]]

\* One iteration of `for worker_db in worker_dbs` (lines 263-305)
merge_shard(c, w) ==
    IF c.attached
    THEN \* ATTACH raises: the name `worker` is already in use
         merge_except([c EXCEPT !.blocked = @ \cup {w}])
    ELSE LET copied == merge_copy(c, w)
         IN IF log_copy_raises(copied.log, c.files[w].log)
            THEN merge_except(copied)
            ELSE LET logged == [copied EXCEPT !.log = @ \cup c.files[w].log]
                 IN IF detach_raises(logged.in_txn)
                    THEN merge_except(logged)
                    ELSE merge_unlink(merge_commit(logged, w), w)

\* Where the process can be killed inside an iteration: after the copy of the
\* rows (line 276), or after the commit and before the shard is unlinked
\* (line 287)
KillPoints == {"copied", "committed"}

\* Whether the iteration for shard w gets to the point
kill_reached(c, w, point) ==
    /\ ~c.attached
    /\ point = "committed" =>
          /\ ~log_copy_raises(merge_copy(c, w).log, c.files[w].log)
          /\ ~detach_raises(merge_copy(c, w).in_txn)

\* The connection at the point
kill_state(c, w, point) ==
    IF point = "copied" THEN merge_copy(c, w)
    ELSE merge_commit([merge_copy(c, w) EXCEPT !.log = @ \cup c.files[w].log], w)

RECURSIVE merge_loop(_, _)
merge_loop(c, order) ==
    IF order = <<>> THEN c
    ELSE merge_loop(merge_shard(c, Head(order)), Tail(order))

\* The orders in which glob() can list a set of shard files
RECURSIVE Orders(_)
Orders(S) ==
    IF S = {} THEN {<<>>}
    ELSE UNION {{<<w>> \o o : o \in Orders(S \ {w})} : w \in S}

ExistingShards == {w \in Workers : shards[w].exists}

\* A worker stores a page of one record in its own shard and logs it (BPK:
\* worker_db.insert_perda, bpk_scraper.py 349, worker_db.log_scraping, 355);
\* logged is FALSE when log_scraping raises
ShardPage(w, url, logged) ==
    /\ clock < MaxClock
    /\ clock' = clock + 1
    /\ LET db == insert_perda(shards[w], url, clock + 1)
       IN shards' = [shards EXCEPT ![w] =
                        [db EXCEPT !.log = IF logged THEN log_scraping(@) ELSE @]]
    /\ UNCHANGED <<cfgVars, conVars, reqVars, runVars, valVars, dlVars, main_perda, main_seq, main_log,
                   merges, kills>>

\* A page of one record logged and stored in the canonical store itself
\* (self.db.log_scraping, scraper_enhanced.py 522, self.db.insert_many_perda,
\* 602)
MainPage(url) ==
    /\ clock < MaxClock
    /\ clock' = clock + 1
    /\ LET db == insert_perda([exists |-> TRUE, perda |-> main_perda,
                               seq |-> main_seq, log |-> main_log],
                              url, clock + 1)
       IN main_perda' = db.perda /\ main_seq' = db.seq
    /\ main_log' = log_scraping(main_log)
    /\ UNCHANGED <<cfgVars, conVars, reqVars, runVars, valVars, dlVars, shards, merges, kills>>

\* A failed page logged to the canonical store (self.db.log_scraping,
\* bpk_scraper.py 372)
MainLog ==
    /\ clock < MaxClock
    /\ clock' = clock + 1
    /\ main_log' = log_scraping(main_log)
    /\ UNCHANGED <<cfgVars, conVars, reqVars, runVars, valVars, dlVars, main_perda, main_seq, shards,
                   merges, kills>>

\* A close that commits the open transaction
close_commits(c) == [perda |-> c.perda, seq |-> c.seq, log |-> c.log]

\* main_conn.close() (line 307): what the open transaction wrote is rolled back
close(c) == [perda |-> c.c_perda, seq |-> c.c_seq, log |-> c.c_log]

\* The database file after the process died with the connection open: what
\* was not committed is rolled back when the file is next opened
killed(c) == [perda |-> c.c_perda, seq |-> c.c_seq, log |-> c.c_log]

\* merge_worker_databases (lines 244-310), in one of the orders glob() can
\* give.  main_conn.close() (line 307) drops what was not committed.
Merge ==
    /\ Len(merges) + Len(kills) < MaxMerges
    /\ \E order \in Orders(ExistingShards) :
       LET c == merge_loop(Connect(main_perda, main_seq, main_log, shards), order)
           db == close(c)
       IN /\ main_perda' = db.perda
          /\ main_seq' = db.seq
          /\ main_log' = db.log
          /\ shards' = c.files
          /\ merges' = Append(merges, [input |-> shards,
                                       before |-> main_perda,
                                       after |-> db.perda,
                                       merged |-> c.merged,
                                       blocked |-> c.blocked,
                                       left |-> c.files])
    /\ UNCHANGED <<cfgVars, conVars, reqVars, runVars, valVars, dlVars, clock, kills>>

\* merge_worker_databases killed (SIGKILL, power loss) in its k-th iteration
MergeKilled ==
    /\ Len(merges) + Len(kills) < MaxMerges
    /\ \E order \in Orders(ExistingShards), point \in KillPoints :
       \E k \in 1..Len(order) :
       LET before == merge_loop(Connect(main_perda, main_seq, main_log, shards),
                                SubSeq(order, 1, k - 1))
           c == kill_state(before, order[k], point)
           db == killed(c)
       IN /\ kill_reached(before, order[k], point)
          /\ main_perda' = db.perda
          /\ main_seq' = db.seq
          /\ main_log' = db.log
          /\ shards' = c.files
          /\ kills' = Append(kills, [input |-> shards,
                                     at |-> Len(merges),
                                     point |-> point,
                                     after |-> db.perda,
                                     left |-> c.files])
    /\ UNCHANGED <<cfgVars, conVars, reqVars, runVars, valVars, dlVars, clock, merges>>

-----------------------------------------------------------------------------
(* A run and its restarts *)

\* The state after the scraper object is constructed (BaseScraper.__init__,
\* EnhancedPerdaScraper.__init__); the state file is what the last run left
FreshObject ==
    /\ pc' = "start"
    /\ scraped_pages' = {}
    /\ failed_pages' = EmptyDict
    /\ total_items_scraped' = 0
    /\ status' = [p \in Pages |-> "none"]
    /\ attempt' = [p \in Pages |-> 0]
    /\ retry_count' = [p \in Pages |-> 0]
    /\ last_items' = [p \in Pages |-> 0]
    /\ last_error' = [p \in Pages |-> ""]
    /\ fetches' = [p \in Pages |-> 0]
    /\ page_queue' = {}
    /\ retry_queue' = <<>>
    /\ futures' = {}
    /\ db_pages' = {}

\* The process is started again after a run ended.  Only the BPK scraper reads
\* its state file: EnhancedPerdaScraper has no load_scraping_state and writes
\* the whole file anew at the end of a run.
Restart ==
    /\ pc \in {"done", "raised"}
    /\ FreshObject
    /\ UNCHANGED <<cfgVars, conVars, reqVars, state_file, valVars, dlVars, dbVars>>

-----------------------------------------------------------------------------
(* The artifact download and the item loop of one page *)

\* items of a handled page
MaxItems == 2

\* `for attempt in range(3)` of download_pdf
download_attempts == 3

\* destination paths docs/.../<title>.pdf that the items of the site map to
PdfPaths == {"a.pdf", "b.pdf"}

\* What one iteration of the retry loop can meet: the body streamed to the
\* file, session.get / raise_for_status raising, iter_content raising after
\* open(pdf_path, 'wb') created the file, or a response with an html / text
\* content type
AttemptOutcomes == {"ok", "http_error", "stream_error", "html"}

\* What the attempts of one call meet, one after the other: every attempt but
\* the last one raises, and only the last of range(3) may raise as well
Outs ==
    {outs \in UNION {[1..n -> AttemptOutcomes] : n \in 1..download_attempts} :
        /\ \A i \in 1..(Len(outs) - 1) : outs[i] \in {"http_error", "stream_error"}
        /\ Len(outs) < download_attempts => outs[Len(outs)] \in {"ok", "html"}}

\* the same when download_pdf is not called
NoOuts == <<"ok">>

\* pdf_path.exists()
path_exists(file) == file # "absent"

\* time.sleep(2 ** attempt)
backoff(a) == 2 ^ a

\* What download_pdf gives when it issues no request
NoRequest(file, result) ==
    [file |-> file, requests |-> 0, result |-> result, last |-> "",
     slept |-> <<>>]

\* The loop `for attempt in range(3)` from iteration a on.  Only the BPK
\* scraper looks at the content type (bpk_scraper.py 178-184); the enhanced
\* one writes whatever body it gets.
\* The result also tells what the last attempt met and, in slept, the
\* time.sleep(2 ** attempt) calls of the except branch, in order.
RECURSIVE download_loop(_, _, _, _)
download_loop(m, file, outs, a) ==
    LET o == outs[a + 1]
    IN IF o \in {"http_error", "stream_error"}
       THEN LET f == IF o = "stream_error" THEN "partial" ELSE file
            IN IF a < download_attempts - 1
               THEN [download_loop(m, f, outs, a + 1)
                        EXCEPT !.slept = <<backoff(a)>> \o @]
               ELSE [file |-> f, requests |-> a + 1, result |-> "none",
                     last |-> o, slept |-> <<>>]
       ELSE IF o = "html" /\ m = "bpk"
            THEN [file |-> file, requests |-> a + 1, result |-> "none",
                  last |-> o, slept |-> <<>>]
            ELSE [file |-> IF o = "html" THEN "html" ELSE "pdf",
                  requests |-> a + 1, result |-> "path",
                  last |-> o, slept |-> <<>>]

\* download_pdf without its `if pdf_path.exists()` test
download_pdf_no_skip(m, pdf_url, enabled, file, fs_ok, outs) ==
    IF ~pdf_url \/ ~enabled
    THEN NoRequest(file, "none")
    ELSE IF ~fs_ok
         THEN NoRequest(file, "none")
         ELSE download_loop(m, file, outs, 0)

\* download_pdf(pdf_url, year, region_name, title).  file is what the
\* destination path holds, fs_ok whether pdf_dir.mkdir succeeds (its error is
\* caught by the outer except), outs what the attempts meet.  The result
\* gives the file afterwards, the requests issued and the value returned.
\* (mkdir(parents=True, exist_ok=True) does not raise for a directory that
\* already holds the file, so callers give fs_ok = FALSE on a missing file only.)
download_pdf(m, pdf_url, enabled, file, fs_ok, outs) ==
    IF ~pdf_url \/ ~enabled
    THEN NoRequest(file, "none")
    ELSE IF ~fs_ok
         THEN NoRequest(file, "none")
         ELSE IF path_exists(file)
              THEN NoRequest(file, "path")
              ELSE download_loop(m, file, outs, 0)

\* An item as _parse_card / the listing parser returns it: no pdf_path key.
\* dl and stored are history: what the download of the item gave, and the
\* pdf_path column of the row written for it.
NewItem(path, pdf_url) ==
    [path |-> path, pdf_url |-> pdf_url, pdf_path |-> "", dl |-> "pending",
     stored |-> "unwritten"]

ItemLists ==
    UNION {[1..n -> {NewItem(path, u) : path \in PdfPaths, u \in BOOLEAN}] :
           n \in 1..MaxItems}

\* item['pdf_path'] = pdf_path whatever download_pdf returned
item_with_path_unchecked(item, result) == [item EXCEPT !.pdf_path = result]

\* if pdf_path: item['pdf_path'] = pdf_path
item_with_path(item, result) ==
    IF result = "path" THEN [item EXCEPT !.pdf_path = "path"] ELSE item

\* insert_perda / insert_many_perda write data.get('pdf_path') into the row
insert_row(item) == [item EXCEPT !.stored = item.pdf_path]

\* the record of one download_pdf call
DlCall(path, file, r) ==
    [path |-> path, found |-> path_exists(file), requests |-> r.requests,
     result |-> r.result, before |-> file, after |-> r.file,
     last |-> r.last, slept |-> r.slept]

\* BPK, one iteration of `for item in items` (lines 332-349) and, when
\* insert_perda raises, the except branch of the future (lines 367-372)
BpkItem ==
    /\ mode = "bpk" /\ pc = "items" /\ item_pos <= Len(items)
    /\ \E fs_ok \in BOOLEAN, outs \in Outs, insert_ok \in BOOLEAN,
          main_ok \in BOOLEAN :
       LET item == items[item_pos]
           called == item.pdf_url /\ download_pdfs
           r == download_pdf(mode, item.pdf_url, download_pdfs,
                             disk[item.path], fs_ok, outs)
           it == IF called
                 THEN [item_with_path(item, r.result) EXCEPT !.dl = r.result]
                 ELSE [item EXCEPT !.dl = "skipped"]
       IN /\ ~called => fs_ok /\ outs = NoOuts
          /\ path_exists(disk[item.path]) => fs_ok
          /\ disk' = IF called THEN [disk EXCEPT ![item.path] = r.file]
                     ELSE disk
          /\ dl_calls' = IF called
                         THEN Append(dl_calls,
                                     DlCall(item.path, disk[item.path], r))
                         ELSE dl_calls
          /\ IF insert_ok
             THEN /\ main_ok
                  /\ items' = [items EXCEPT ![item_pos] = insert_row(it)]
                  /\ item_pos' = item_pos + 1
                  /\ UNCHANGED <<failed_pages, store_fault, pc>>
             ELSE /\ items' = [items EXCEPT ![item_pos] = it]
                  /\ failed_pages' = bpk_mark_failed(failed_pages, item_page,
                                                     "error")
                  /\ store_fault' = "insert"
                  /\ pc' = IF main_ok THEN "page_failed" ELSE "aborting"
                  /\ UNCHANGED item_pos
    /\ UNCHANGED <<cfgVars, conVars, reqVars, scraped_pages, total_items_scraped, state_file,
                   taskVars, enhVars, db_pages, valVars, download_pdfs,
                   item_page, dbVars>>

\* BPK, after the item loop (lines 351-355): the page is recorded as scraped
\* and logged
BpkItemsDone ==
    /\ mode = "bpk" /\ pc = "items" /\ item_pos > Len(items)
    /\ scraped_pages' = bpk_mark_scraped(scraped_pages, item_page)
    /\ total_items_scraped' = total_items_scraped + Len(items)
    /\ db_pages' = db_pages \cup {item_page}
    /\ \E log_ok \in BOOLEAN, main_ok \in BOOLEAN :
       IF log_ok
       THEN /\ main_ok
            /\ pc' = "page_done"
            /\ UNCHANGED <<failed_pages, store_fault>>
       ELSE /\ failed_pages' = bpk_mark_failed(failed_pages, item_page, "error")
            /\ store_fault' = "log"
            /\ pc' = IF main_ok THEN "page_failed" ELSE "aborting"
    /\ UNCHANGED <<cfgVars, conVars, reqVars, state_file, taskVars, enhVars, valVars,
                   download_pdfs, item_page, items, item_pos, disk, dl_calls,
                   dbVars>>

\* Enhanced, one iteration of `for item in items` (lines 565-590).  detail is
\* whether scrape_detail_page finds a PDF link (it returns {} on any error).
EnhItem ==
    /\ mode = "enh" /\ pc = "items" /\ download_pdfs
    /\ item_pos <= Len(items)
    /\ \E detail \in BOOLEAN, fs_ok \in BOOLEAN, outs \in Outs :
       LET item == items[item_pos]
           it0 == IF ~item.pdf_url /\ detail
                  THEN [item EXCEPT !.pdf_url = TRUE] ELSE item
           called == it0.pdf_url
           r == download_pdf(mode, it0.pdf_url, download_pdfs,
                             disk[item.path], fs_ok, outs)
           it == IF called
                 THEN [item_with_path(it0, r.result) EXCEPT !.dl = r.result]
                 ELSE [it0 EXCEPT !.dl = "skipped"]
       IN /\ ~called => fs_ok /\ outs = NoOuts
          /\ path_exists(disk[item.path]) => fs_ok
          /\ disk' = IF called THEN [disk EXCEPT ![item.path] = r.file]
                     ELSE disk
          /\ dl_calls' = IF called
                         THEN Append(dl_calls,
                                     DlCall(item.path, disk[item.path], r))
                         ELSE dl_calls
          /\ items' = [items EXCEPT ![item_pos] = it]
          /\ item_pos' = item_pos + 1
    /\ UNCHANGED <<cfgVars, conVars, reqVars, pc, stateVars, taskVars, enhVars, db_pages,
                   valVars, download_pdfs, item_page, store_fault, dbVars>>

\* Enhanced, after the item loop (lines 592-605): the page is recorded as
\* scraped, then insert_many_perda writes its items
EnhItemsDone ==
    /\ mode = "enh" /\ pc = "items"
    /\ ~download_pdfs \/ item_pos > Len(items)
    /\ scraped_pages' = scraped_pages \cup {item_page}
    /\ total_items_scraped' = total_items_scraped + Len(items)
    /\ \E insert_ok \in BOOLEAN :
       IF insert_ok
       THEN /\ items' = [i \in DOMAIN items |-> insert_row(items[i])]
            /\ db_pages' = db_pages \cup {item_page}
            /\ pc' = "page_done"
            /\ UNCHANGED store_fault
       ELSE /\ store_fault' = "insert"
            /\ pc' = "page_failed"
            /\ UNCHANGED <<items, db_pages>>
    /\ UNCHANGED <<cfgVars, conVars, reqVars, failed_pages, state_file, taskVars, enhVars,
                   valVars, download_pdfs, item_page, item_pos, disk, dl_calls,
                   dbVars>>

-----------------------------------------------------------------------------
(* The rate limiter and the requests of the enhanced scraper's pool threads *)

\* threading.Semaphore(8)
rate_limiter_permits == 8

\* threads of the pool that SpecLimiter follows (max_workers there)
MaxPoolThreads == 9

\* Where a pool thread can be: outside any request; inside `with
\* self.rate_limiter` before the request (enforce_rate_limit and the random
\* delay); in session.get of make_request_with_retry; in the item loop of
\* process_page_task_enhanced; in session.get of scrape_detail_page; in
\* session.get of download_pdf
Phases == {"idle", "throttled", "listing", "items", "detail", "artifact"}

\* one thread goes from phase a to phase b
move(t, a, b) == [t EXCEPT ![a] = @ - 1, ![b] = @ + 1]

\* Semaphore.__enter__: acquire a permit (the thread blocks while none is left)
LimAcquire ==
    /\ threads["idle"] > 0
    /\ rate_limiter > 0
    /\ rate_limiter' = rate_limiter - 1
    /\ threads' = move(threads, "idle", "throttled")
    /\ UNCHANGED <<cfgVars, conVars, runVars, valVars, dlVars, dbVars, req, sess>>

\* make_request_with_retry, lines 276-293: the request is sent
LimSend ==
    /\ threads["throttled"] > 0
    /\ threads' = move(threads, "throttled", "listing")
    /\ UNCHANGED <<cfgVars, conVars, runVars, valVars, dlVars, dbVars, rate_limiter, req, sess>>

\* make_request_with_retry, lines 295-319: the response is returned or an
\* exception leaves the with-block; Semaphore.__exit__ releases the permit on
\* both ways.  With a response the thread goes on to the items of the page.
LimRelease ==
    /\ threads["listing"] > 0
    /\ rate_limiter' = rate_limiter + 1
    /\ \E ok \in BOOLEAN :
          threads' = move(threads, "listing", IF ok THEN "items" ELSE "idle")
    /\ UNCHANGED <<cfgVars, conVars, runVars, valVars, dlVars, dbVars, req, sess>>

\* process_page_task_enhanced line 569 -> scrape_detail_page line 778:
\* session.get without the rate limiter
LimDetail ==
    /\ download_pdfs
    /\ threads["items"] > 0
    /\ threads' = move(threads, "items", "detail")
    /\ UNCHANGED <<cfgVars, conVars, runVars, valVars, dlVars, dbVars, rate_limiter, req, sess>>

\* scrape_detail_page returns
LimDetailDone ==
    /\ threads["detail"] > 0
    /\ threads' = move(threads, "detail", "items")
    /\ UNCHANGED <<cfgVars, conVars, runVars, valVars, dlVars, dbVars, rate_limiter, req, sess>>

\* process_page_task_enhanced line 575 -> download_pdf line 841: session.get
\* without the rate limiter
LimArtifact ==
    /\ download_pdfs
    /\ threads["items"] > 0
    /\ threads' = move(threads, "items", "artifact")
    /\ UNCHANGED <<cfgVars, conVars, runVars, valVars, dlVars, dbVars, rate_limiter, req, sess>>

\* one attempt of download_pdf ends
LimArtifactDone ==
    /\ threads["artifact"] > 0
    /\ threads' = move(threads, "artifact", "items")
    /\ UNCHANGED <<cfgVars, conVars, runVars, valVars, dlVars, dbVars, rate_limiter, req, sess>>

\* process_page_task_enhanced returns; the thread takes its next task
LimTaskDone ==
    /\ threads["items"] > 0
    /\ threads' = move(threads, "items", "idle")
    /\ UNCHANGED <<cfgVars, conVars, runVars, valVars, dlVars, dbVars, rate_limiter, req, sess>>

\* The requests in flight: listing, detail and artifact requests
InFlightRequests == threads["listing"] + threads["detail"] + threads["artifact"]

-----------------------------------------------------------------------------
(* One call of make_request_with_retry under its tenacity decorator *)

\* @retry(stop=stop_after_attempt(5), ...)
stop_after_attempt == 5

\* int(response.headers.get('Retry-After', 15))
retry_after_default == 15

\* seconds that the server's Retry-After asks for
MaxRetryAfter == 2

\* A Retry-After header as RFC 7231 allows it: missing, delay seconds, or an
\* HTTP-date; secs is the wait it asks for
RetryAfterHeaders ==
    {[kind |-> "absent", secs |-> 0]}
       \cup {[kind |-> k, secs |-> n] :
                k \in {"seconds", "http_date"}, n \in 1..MaxRetryAfter}

\* What session.get can give: a response with a status, or an exception
Responses ==
    {[status |-> "200", retry_after |-> [kind |-> "absent", secs |-> 0]]}
       \cup {[status |-> "429", retry_after |-> h] : h \in RetryAfterHeaders}
       \cup {[status |-> st, retry_after |-> [kind |-> "absent", secs |-> 0]] :
                st \in {"http_error", "timeout", "connection"}}

\* int(response.headers.get('Retry-After', 15)): the default for a missing
\* header, the number for decimal digits, ValueError for anything else
parse_retry_after(h) ==
    IF h.kind = "absent" THEN [raised |-> FALSE, value |-> retry_after_default]
    ELSE IF h.kind = "seconds" THEN [raised |-> FALSE, value |-> h.secs]
    ELSE [raised |-> TRUE, value |-> 0]

\* wait_exponential(multiplier=1, min=3, max=60) before attempt n + 1
wait_exponential(n) ==
    LET e == 2 ^ (n - 1)
    IN IF e < 3 THEN 3 ELSE IF e > 60 THEN 60 ELSE e

NoCall ==
    [pc |-> "idle", attempt |-> 0, has_page |-> FALSE, rate_limit_errors |-> 0,
     other_errors |-> 0, retry_after_slept |-> 0, backoff_slept |-> 0,
     last |-> [status |-> "", retry_after |-> [kind |-> "absent", secs |-> 0]]]

\* tenacity after an attempt raised a requests.RequestException: sleep and
\* run the next attempt, or raise RetryError after the last one
tenacity_retry(r) ==
    IF r.attempt < stop_after_attempt
    THEN [r EXCEPT !.attempt = @ + 1,
                   !.backoff_slept = @ + wait_exponential(r.attempt)]
    ELSE [r EXCEPT !.pc = "retry_error"]

\* One attempt: the body of make_request_with_retry (lines 274-319) given
\* the response resp, and tenacity's decision after it
make_request_attempt(r, resp) ==
    LET r0 == [r EXCEPT !.last = resp]
    IN IF resp.status = "429"
       THEN LET wait_time == parse_retry_after(resp.retry_after)
            IN IF wait_time.raised
               THEN [r0 EXCEPT !.pc = "value_error"]
               ELSE tenacity_retry(
                       [r0 EXCEPT !.rate_limit_errors =
                                      IF r.has_page THEN @ + 1 ELSE @,
                                  !.retry_after_slept = @ + wait_time.value])
       ELSE IF resp.status = "200"
            THEN [r0 EXCEPT !.pc = "returned"]
            ELSE IF resp.status = "http_error"
                 THEN tenacity_retry(r0)
                 ELSE tenacity_retry(
                         [r0 EXCEPT !.other_errors =
                                        IF r.has_page THEN @ + 1 ELSE @])

\* scrape_page_enhanced (line 446, with page_num) or get_total_pages (line
\* 610, without) calls make_request_with_retry
ReqCall ==
    /\ req.pc = "idle"
    /\ \E has_page \in BOOLEAN :
          req' = [NoCall EXCEPT !.pc = "attempt", !.attempt = 1,
                                !.has_page = has_page]
    /\ UNCHANGED <<cfgVars, conVars, runVars, valVars, dlVars, dbVars, rate_limiter,
                   threads, sess>>

\* One attempt of the call; the permit taken by `with self.rate_limiter` is
\* given back when the with-block is left
ReqAttempt ==
    /\ req.pc = "attempt"
    /\ rate_limiter > 0
    /\ \E resp \in Responses : req' = make_request_attempt(req, resp)
    /\ UNCHANGED <<cfgVars, conVars, runVars, valVars, dlVars, dbVars, rate_limiter,
                   threads, sess>>

-----------------------------------------------------------------------------
(* get_thread_session / get_session: the per-thread network sessions *)

\* threads of one run that ask for a session (pool threads; for BPK also the
\* main thread, which downloads the PDFs)
MaxThreadIds == 3

\* get_session calls that one thread is followed through
MaxSessionCalls == 2

\* threading.get_ident() of the threads; 0 is no thread
ThreadIds == 1..MaxThreadIds

\* A key that is the same for every thread
shared_key(t) == 0

\* thread_id = threading.current_thread().ident / threading.get_ident()
session_key(t) == t

\* self.sessions = {}, the lock free, no session created or handed out.
\* given is history: the sessions each thread got from its calls.
NoSessions ==
    [sessions |-> [k \in {} |-> 0], lock |-> 0, created |-> 0,
     pc |-> [t \in ThreadIds |-> "out"],
     calls |-> [t \in ThreadIds |-> 0],
     given |-> [t \in ThreadIds |-> {}]]

\* A thread calls get_thread_session and reaches `with self.session_lock`
SessCall(t) ==
    /\ sess.pc[t] = "out"
    /\ sess.calls[t] < MaxSessionCalls
    /\ sess' = [sess EXCEPT !.pc[t] = "lock", !.calls[t] = @ + 1]
    /\ UNCHANGED <<cfgVars, conVars, runVars, valVars, dlVars, dbVars, rate_limiter,
                   threads, req>>

\* Lock.__enter__: the thread blocks while another thread holds the lock
SessAcquire(t) ==
    /\ sess.pc[t] = "lock"
    /\ sess.lock = 0
    /\ sess' = [sess EXCEPT !.pc[t] = "locked", !.lock = t]
    /\ UNCHANGED <<cfgVars, conVars, runVars, valVars, dlVars, dbVars, rate_limiter,
                   threads, req>>

\* The body under the lock (enhanced lines 220-248, base 162-173): create
\* and store a session when the thread's key has none, return the stored
\* one; leaving the with-block releases the lock
SessReturn(t) ==
    /\ sess.pc[t] = "locked"
    /\ LET k == session_key(t)
           fresh == k \notin DOMAIN sess.sessions
           new == sess.created + 1
           dict == IF fresh
                   THEN [j \in DOMAIN sess.sessions \cup {k} |->
                            IF j = k THEN new ELSE sess.sessions[j]]
                   ELSE sess.sessions
       IN sess' = [sess EXCEPT !.sessions = dict,
                               !.created = IF fresh THEN new ELSE @,
                               !.given[t] = @ \cup {dict[k]},
                               !.lock = 0,
                               !.pc[t] = "out"]
    /\ UNCHANGED <<cfgVars, conVars, runVars, valVars, dlVars, dbVars, rate_limiter,
                   threads, req>>

-----------------------------------------------------------------------------
(* The locks of the enhanced scraper: data_lock, progress_lock, session_lock *)
(* and the rate limiter, as the pool threads and the scheduling loop take    *)
(* them                                                                      *)

\* The scheduler thread: the caller of scrape_all_with_validation
MainThread == MaxThreadIds + 1
LockThreads == ThreadIds \cup {MainThread}

\* self.rate_limiter, self.session_lock, self.data_lock, self.progress_lock
LockNames == {"rate_limiter", "session_lock", "data_lock", "progress_lock"}

\* Nothing is held by any thread
NoneHeld == [t \in LockThreads |-> {}]

\* __enter__ of a lock or of the semaphore: the thread holds it afterwards
acquire(h, t, l) == [h EXCEPT ![t] = @ \cup {l}]

\* A with-statement that gives the lock back only when its body returns
exit_kept_on_raise(h, t, l, raised) ==
    IF raised THEN h ELSE [h EXCEPT ![t] = @ \ {l}]

\* __exit__ of `with lock:` (lines 219, 276, 541, 586, 598, 724): the lock or
\* permit is given back whether the body returns or raises
exit_with(h, t, l, raised) == [h EXCEPT ![t] = @ \ {l}]

\* the thread that holds lock l under the holdings h, 0 when it is free
holder(h, l) ==
    IF \E t \in LockThreads : l \in h[t]
    THEN CHOOSE t \in LockThreads : l \in h[t]
    ELSE 0

\* The lock objects after a step that leaves the holdings h
Locked(h) ==
    /\ held' = h
    /\ data_lock' = holder(h, "data_lock")
    /\ progress_lock' = holder(h, "progress_lock")
    /\ sess' = [sess EXCEPT !.lock = holder(h, "session_lock")]
    /\ rate_limiter' = rate_limiter_permits
                          - Cardinality({t \in LockThreads : "rate_limiter" \in h[t]})

\* What the lock steps leave alone
LkFrame == UNCHANGED <<cfgVars, runVars, valVars, dlVars, dbVars, threads, req,
                       errors, rec, total_pages, dispatched, counted>>

\* where thread t is
pc_of(t) == IF t = MainThread THEN main_pc ELSE task_pc[t]

\* thread t goes to position p
goto(t, p) ==
    IF t = MainThread
    THEN main_pc' = p /\ UNCHANGED task_pc
    ELSE task_pc' = [task_pc EXCEPT ![t] = p] /\ UNCHANGED main_pc

\* The lock a thread at position p is about to enter, "" when none:
\* `with self.rate_limiter` (276), `with self.session_lock` (219, reached from
\* lines 282, 777 and 838), `with self.data_lock` (541), `with
\* self.progress_lock` (586, 598, 724)
wants(p) ==
    IF p = "want_permit" THEN "rate_limiter"
    ELSE IF p \in {"want_session_listing", "want_session_detail",
                   "want_session_artifact"} THEN "session_lock"
    ELSE IF p \in {"want_data", "want_data_error"} THEN "data_lock"
    ELSE IF p \in {"want_progress_item", "want_progress_total", "want_progress"}
         THEN "progress_lock"
    ELSE ""

\* Lock.acquire / Semaphore.acquire would return at once
available(l) ==
    IF l = "rate_limiter" THEN rate_limiter > 0
    ELSE IF l = "session_lock" THEN sess.lock = 0
    ELSE IF l = "data_lock" THEN data_lock = 0
    ELSE progress_lock = 0

\* the position inside the with-block that was entered from position p
entered(p) ==
    IF p = "want_permit" THEN "throttle"
    ELSE IF p = "want_session_listing" THEN "in_session_listing"
    ELSE IF p = "want_session_detail" THEN "in_session_detail"
    ELSE IF p = "want_session_artifact" THEN "in_session_artifact"
    ELSE IF p = "want_data" THEN "items"
    ELSE IF p = "want_data_error" THEN "in_data_error"
    ELSE IF p = "want_progress_item" THEN "in_progress_item"
    ELSE IF p = "want_progress_total" THEN "in_progress_total"
    ELSE "in_progress"

\* Positions where a pool thread is suspended: time.sleep of enforce_rate_limit
\* and the random delay (265, 280), session.get of the listing (286),
\* time.sleep(wait_time) after a 429 (301), tenacity's wait between attempts
\* (271), session.get of scrape_detail_page (778), session.get and iter_content
\* of download_pdf (841-848), time.sleep(2 ** attempt) of download_pdf (855)
Suspended == {"throttle", "fetch", "rate_wait", "backoff", "detail", "artifact",
              "dl_backoff"}

\* A pool thread starts process_page_task_enhanced (line 539) and reaches
\* make_request_with_retry through scrape_page_enhanced (line 446)
LkCall(t) ==
    /\ task_pc[t] = "idle"
    /\ goto(t, "want_permit")
    /\ Locked(held)
    /\ LkFrame

\* __enter__ of the lock or semaphore the thread is about to enter; it blocks
\* while the lock is held or no permit is left
LkEnter(t) ==
    /\ wants(pc_of(t)) # ""
    /\ available(wants(pc_of(t)))
    /\ goto(t, entered(pc_of(t)))
    /\ Locked(acquire(held, t, wants(pc_of(t))))
    /\ LkFrame

\* make_request_with_retry, lines 277-282: the sleeps are over, the thread
\* asks for its session
LkThrottle(t) ==
    /\ task_pc[t] = "throttle"
    /\ goto(t, "want_session_listing")
    /\ Locked(held)
    /\ LkFrame

\* get_thread_session returns (line 248) to its caller: make_request_with_retry
\* (282), scrape_detail_page (777) or download_pdf (838)
LkSessionExit(t) ==
    /\ task_pc[t] \in {"in_session_listing", "in_session_detail",
                       "in_session_artifact"}
    /\ goto(t, IF task_pc[t] = "in_session_listing" THEN "fetch"
               ELSE IF task_pc[t] = "in_session_detail" THEN "detail"
               ELSE "artifact")
    /\ Locked(exit_with(held, t, "session_lock", FALSE))
    /\ LkFrame

\* session.get of the listing ends (lines 286-319): a response, a 429, or an
\* exception.  After an exception tenacity waits and calls again, or the
\* exception reaches scrape_page_enhanced, which returns an error (530-534).
LkResponse(t) ==
    /\ task_pc[t] = "fetch"
    /\ \E o \in {"ok", "rate_limited", "retry", "error"} :
          IF o = "rate_limited"
          THEN goto(t, "rate_wait") /\ Locked(held)
          ELSE /\ goto(t, IF o = "ok" THEN "want_data"
                          ELSE IF o = "retry" THEN "backoff"
                          ELSE "want_data_error")
               /\ Locked(exit_with(held, t, "rate_limiter", o # "ok"))
    /\ LkFrame

\* time.sleep(wait_time) is over: raise requests.RequestException (line 302)
LkRateWait(t) ==
    /\ task_pc[t] = "rate_wait"
    /\ \E again \in BOOLEAN :
          goto(t, IF again THEN "backoff" ELSE "want_data_error")
    /\ Locked(exit_with(held, t, "rate_limiter", TRUE))
    /\ LkFrame

\* tenacity's wait is over: the next attempt of make_request_with_retry
LkBackoff(t) ==
    /\ task_pc[t] = "backoff"
    /\ goto(t, "want_permit")
    /\ Locked(held)
    /\ LkFrame

\* process_page_task_enhanced, lines 542-560: the error branch returns False
LkError(t) ==
    /\ task_pc[t] = "in_data_error"
    /\ goto(t, "returned_false")
    /\ Locked(exit_with(held, t, "data_lock", FALSE))
    /\ LkFrame

\* The head of `for item in items` (lines 563-589): the next item needs its
\* detail page (568-569), has a pdf_url to download (574-575), or the loop is
\* over or was never entered
LkItem(t) ==
    /\ task_pc[t] = "items"
    /\ \E next \in {"want_session_detail", "want_session_artifact", "store"} :
          /\ next # "store" => download_pdfs
          /\ goto(t, next)
    /\ Locked(held)
    /\ LkFrame

\* scrape_detail_page returns (lines 778-809): with a pdf_url the download
\* follows, without one the item is left
LkDetailDone(t) ==
    /\ task_pc[t] = "detail"
    /\ \E found \in BOOLEAN :
          goto(t, IF found THEN "want_session_artifact" ELSE "items")
    /\ Locked(held)
    /\ LkFrame

\* One attempt of download_pdf ends (lines 841-858): the file is written, or
\* the attempt failed and another follows after a sleep, or it was the last
LkArtifactDone(t) ==
    /\ task_pc[t] = "artifact"
    /\ \E again \in BOOLEAN :
          goto(t, IF again THEN "dl_backoff" ELSE "want_progress_item")
    /\ Locked(held)
    /\ LkFrame

\* time.sleep(2 ** attempt) is over (line 855)
LkDlBackoff(t) ==
    /\ task_pc[t] = "dl_backoff"
    /\ goto(t, "artifact")
    /\ Locked(held)
    /\ LkFrame

\* self.current_download is set (lines 586-587)
LkCurrentDownload(t) ==
    /\ task_pc[t] = "in_progress_item"
    /\ goto(t, "items")
    /\ Locked(exit_with(held, t, "progress_lock", FALSE))
    /\ LkFrame

\* self.scraped_pages.add, self.page_data (lines 595-598)
LkStore(t) ==
    /\ task_pc[t] = "store"
    /\ goto(t, "want_progress_total")
    /\ Locked(held)
    /\ LkFrame

\* self.total_items_scraped += len(items) (lines 598-599)
LkTotal(t) ==
    /\ task_pc[t] = "in_progress_total"
    /\ goto(t, "insert")
    /\ Locked(exit_with(held, t, "progress_lock", FALSE))
    /\ LkFrame

\* self.db.insert_many_perda(items) returns or raises (lines 602-605); either
\* way `with self.data_lock` is left
LkInsert(t) ==
    /\ task_pc[t] = "insert"
    /\ \E raised \in BOOLEAN :
          /\ goto(t, IF raised THEN "raised" ELSE "returned_true")
          /\ Locked(exit_with(held, t, "data_lock", raised))
    /\ LkFrame

\* The scheduler takes a done future (lines 706-733); after a True result it
\* reads self.current_download under progress_lock (724-726)
LkCollect(t) ==
    /\ main_pc = "loop"
    /\ task_pc[t] \in {"returned_true", "returned_false", "raised"}
    /\ task_pc' = [task_pc EXCEPT ![t] = "collected"]
    /\ main_pc' = IF task_pc[t] = "returned_true" THEN "want_progress" ELSE "loop"
    /\ Locked(held)
    /\ LkFrame

\* the scheduler leaves `with self.progress_lock` (lines 724-728)
LkPostfix ==
    /\ main_pc = "in_progress"
    /\ goto(MainThread, "loop")
    /\ Locked(exit_with(held, MainThread, "progress_lock", FALSE))
    /\ LkFrame

-----------------------------------------------------------------------------
(* ErrorTracker: record_error and mark_resolved as the pool threads call them *)

\* pool threads that SpecErrors follows; thread t scrapes page t
MaxErrThreads == 2
ErrThreads == 1..MaxErrThreads

\* request errors (429, timeout, connection error) that one scrape of a page
\* is followed through before tenacity's attempts end
MaxRequestErrors == 1

\* error types recorded by make_request_with_retry (lines 299, 311, 318)
RequestErrorTypes == {"rate_limit", "timeout", "connection"}

\* error types recorded by scrape_page_enhanced (lines 450, 507, 515)
PageErrorTypes == {"empty_response", "parse_error", "low_items"}

\* for error_type in ['low_items', 'parse_error', 'empty_response'] (line 525)
ResolvedTypes == <<"low_items", "parse_error", "empty_response">>

\* len(items) of a page that is accepted
AcceptedItems == 18

\* self.errors = {}
NoErrors == [k \in {} |-> <<>>]

\* error_record (lines 123-129); call is history: which record_error call of
\* the page's thread built it
ErrorRecord(p, call) == [page_num |-> p, resolved |-> FALSE, call |-> call]

\* A thread outside the error tracker, its page not requested yet
NoRecordCall ==
    [pc |-> "request", error_type |-> "", missing |-> FALSE, after |-> "",
     calls |-> 0, request_errors |-> 0, read |-> 0]

NoRecordCalls == [t \in ErrThreads |-> NoRecordCall]

\* All records of page p in the tracker
RecordsOf(e, p) ==
    {<<ty, i>> \in UNION {{ty} \X (1..Len(e[ty])) : ty \in DOMAIN e} :
        e[ty][i].page_num = p}

\* mark_resolved (lines 148-158): the first unresolved record of the page
\* under error_type is set resolved, then break
mark_resolved(e, error_type, page_num) ==
    IF error_type \notin DOMAIN e THEN e
    ELSE LET open == {i \in 1..Len(e[error_type]) :
                         /\ e[error_type][i].page_num = page_num
                         /\ ~e[error_type][i].resolved}
         IN IF open = {} THEN e
            ELSE LET first == CHOOSE i \in open : \A j \in open : i <= j
                 IN [e EXCEPT ![error_type][first].resolved = TRUE]

\* scrape_page_enhanced, lines 525-526: mark_resolved for the three types
resolve_page(e, page_num) ==
    mark_resolved(mark_resolved(mark_resolved(e, ResolvedTypes[1], page_num),
                                ResolvedTypes[2], page_num),
                  ResolvedTypes[3], page_num)

\* What the error tracker's steps leave alone
ErrFrame == UNCHANGED <<cfgVars, pc, scraped_pages, failed_pages, state_file,
                        taskVars, enhVars, db_pages, valVars, dlVars, dbVars,
                        threads, req, task_pc, main_pc, total_pages, dispatched,
                        counted>>

\* No lock is touched
ErrNoLock == UNCHANGED <<rate_limiter, sess, data_lock, progress_lock, held>>

\* record_error is entered with error type ty; when it returns the thread
\* goes on at position after
record_call(r, ty, after) ==
    [r EXCEPT !.pc = "check", !.error_type = ty, !.after = after]

\* One attempt of make_request_with_retry for the page's listing (lines
\* 286-319): it records a request error, after which tenacity calls again or
\* its RetryError ends the scrape (530-534); or it returns the response
ErrRequest(t) ==
    /\ rec[t].pc = "request"
    /\ \/ /\ rec[t].request_errors < MaxRequestErrors
          /\ \E ty \in RequestErrorTypes, again \in BOOLEAN :
                rec' = [rec EXCEPT ![t] =
                           record_call([@ EXCEPT !.request_errors = @ + 1], ty,
                                       IF again THEN "request" ELSE "failed")]
       \/ rec' = [rec EXCEPT ![t].pc = "response"]
    /\ UNCHANGED <<errors, total_items_scraped>>
    /\ ErrNoLock
    /\ ErrFrame

\* scrape_page_enhanced after the response (lines 448-528): an empty
\* response, a parse error or too few items is recorded and returned as an
\* error; or the page is accepted
ErrPage(t) ==
    /\ rec[t].pc = "response"
    /\ \/ \E ty \in PageErrorTypes :
             rec' = [rec EXCEPT ![t] = record_call(@, ty, "failed")]
       \/ rec' = [rec EXCEPT ![t].pc = "resolve"]
    /\ UNCHANGED <<errors, total_items_scraped>>
    /\ ErrNoLock
    /\ ErrFrame

\* record_error, line 120: if error_type not in self.errors
ErrCheck(t) ==
    /\ rec[t].pc = "check"
    /\ LET missing == rec[t].error_type \notin DOMAIN errors
       IN rec' = [rec EXCEPT ![t].missing = missing,
                             ![t].pc = IF missing THEN "create" ELSE "append"]
    /\ UNCHANGED <<errors, total_items_scraped>>
    /\ ErrNoLock
    /\ ErrFrame

\* record_error, line 121: self.errors[error_type] = []
ErrCreate(t) ==
    /\ rec[t].pc = "create"
    /\ errors' = DictSet(errors, rec[t].error_type, <<>>)
    /\ rec' = [rec EXCEPT ![t].pc = "append"]
    /\ UNCHANGED total_items_scraped
    /\ ErrNoLock
    /\ ErrFrame

\* record_error, lines 123-131: self.errors[error_type].append(error_record)
ErrAppend(t) ==
    /\ rec[t].pc = "append"
    /\ errors' = [errors EXCEPT ![rec[t].error_type] =
                     Append(@, ErrorRecord(t, rec[t].calls + 1))]
    /\ rec' = [rec EXCEPT ![t].pc = rec[t].after, ![t].calls = @ + 1]
    /\ UNCHANGED total_items_scraped
    /\ ErrNoLock
    /\ ErrFrame

\* scrape_page_enhanced, lines 521-528: the page succeeded, its errors are
\* marked resolved and the items are returned
ErrResolve(t) ==
    /\ rec[t].pc = "resolve"
    /\ errors' = resolve_page(errors, t)
    /\ rec' = [rec EXCEPT ![t].pc = "want_data"]
    /\ UNCHANGED total_items_scraped
    /\ ErrNoLock
    /\ ErrFrame

\* process_page_task_enhanced, line 541: with self.data_lock
ErrData(t) ==
    /\ rec[t].pc = "want_data"
    /\ data_lock = 0
    /\ Locked(acquire(held, t, "data_lock"))
    /\ rec' = [rec EXCEPT ![t].pc = "want_progress"]
    /\ UNCHANGED <<errors, total_items_scraped>>
    /\ ErrFrame

\* lines 598-599: with self.progress_lock, and the read of
\* self.total_items_scraped that `+=` starts with
ErrRead(t) ==
    /\ rec[t].pc = "want_progress"
    /\ progress_lock = 0
    /\ Locked(acquire(held, t, "progress_lock"))
    /\ rec' = [rec EXCEPT ![t].pc = "add", ![t].read = total_items_scraped]
    /\ UNCHANGED <<errors, total_items_scraped>>
    /\ ErrFrame

\* line 599: the sum is stored, progress_lock is left
ErrAdd(t) ==
    /\ rec[t].pc = "add"
    /\ total_items_scraped' = rec[t].read + AcceptedItems
    /\ Locked(exit_with(held, t, "progress_lock", FALSE))
    /\ rec' = [rec EXCEPT ![t].pc = "added"]
    /\ UNCHANGED errors
    /\ ErrFrame

\* lines 602-605: the records are inserted, data_lock is left
ErrReturn(t) ==
    /\ rec[t].pc = "added"
    /\ Locked(exit_with(held, t, "data_lock", FALSE))
    /\ rec' = [rec EXCEPT ![t].pc = "returned"]
    /\ UNCHANGED <<errors, total_items_scraped>>
    /\ ErrFrame

\* No lock is held, no pool thread has a task, no error is recorded
IdleThreads ==
    /\ data_lock = 0
    /\ progress_lock = 0
    /\ task_pc = [t \in ThreadIds |-> "idle"]
    /\ main_pc = "loop"
    /\ held = NoneHeld
    /\ errors = NoErrors
    /\ rec = NoRecordCalls
    /\ total_pages = 0
    /\ dispatched = {}
    /\ counted = [p \in Pages |-> 0]

\* No pool thread is followed
IdleRequests ==
    /\ rate_limiter = rate_limiter_permits
    /\ threads = [ph \in Phases |-> 0]
    /\ req = NoCall
    /\ sess = NoSessions

\* No page's items are being handled
IdleDownload ==
    /\ download_pdfs = FALSE
    /\ item_page = 0
    /\ items = <<>>
    /\ item_pos = 1
    /\ disk = [path \in PdfPaths |-> "absent"]
    /\ dl_calls = <<>>
    /\ store_fault = "none"

IdleRun ==
    /\ pc = "start"
    /\ scraped_pages = {}
    /\ failed_pages = EmptyDict
    /\ total_items_scraped = 0
    /\ state_file = NoFile
    /\ status = [p \in Pages |-> "none"]
    /\ attempt = [p \in Pages |-> 0]
    /\ retry_count = [p \in Pages |-> 0]
    /\ last_items = [p \in Pages |-> 0]
    /\ last_error = [p \in Pages |-> ""]
    /\ fetches = [p \in Pages |-> 0]
    /\ page_queue = {}
    /\ retry_queue = <<>>
    /\ futures = {}
    /\ db_pages = {}

IdleValidate == v_count = 0 /\ v_last = FALSE /\ v_result = "none"
IdleStore ==
    /\ main_perda = {} /\ main_seq = 0 /\ main_log = {}
    /\ shards = [w \in Workers |-> NoShard]
    /\ clock = 0 /\ merges = <<>> /\ kills = <<>>

Init ==
    /\ mode \in {"bpk", "enh"}
    /\ max_retries \in MaxRetriesChoices
    /\ max_workers \in MaxWorkersChoices
    /\ min_items_per_page \in MinItemsChoices
    /\ site = [p \in Pages |-> FetchOutcomes]
    /\ IdleRun
    /\ IdleValidate
    /\ IdleStore
    /\ IdleThreads
    /\ IdleRequests
    /\ IdleDownload

Next ==
    \/ BpkLoad
    \/ \E p \in Pages : BpkStart(p)
    \/ \E p \in Pages : BpkAttempt(p)
    \/ \E p \in Pages : BpkHandle(p)
    \/ BpkInterrupt
    \/ BpkAbortSave
    \/ BpkFinish
    \/ EnhSeed
    \/ EnhLoop
    \/ \E p \in Pages : EnhScrape(p)
    \/ \E p \in Pages : EnhRecord(p)
    \/ EnhInterrupt
    \/ EnhFinish
    \/ Restart

Spec == Init /\ [][Next]_vars

\* The degraded-accept scenario: min_items_per_page = 18, max_retries = 3 and
\* a page before the last that gives 10 items whenever it is fetched
InitLowItems ==
    /\ mode \in {"bpk", "enh"}
    /\ max_retries = 3
    /\ max_workers \in MaxWorkersChoices
    /\ min_items_per_page = 18
    /\ site = [p \in Pages |-> IF p = 1 THEN {10} ELSE FetchOutcomes]
    /\ IdleRun
    /\ IdleValidate
    /\ IdleStore
    /\ IdleThreads
    /\ IdleRequests
    /\ IdleDownload

SpecLowItems == InitLowItems /\ [][Next]_vars

\* The configuration while the store or the validator is followed alone
IdleConfig ==
    /\ mode = "bpk"
    /\ max_retries = 3
    /\ max_workers = 2
    /\ site = [p \in Pages |-> FetchOutcomes]

InitMerge ==
    /\ IdleConfig
    /\ min_items_per_page = 18
    /\ IdleRun
    /\ IdleValidate
    /\ IdleStore
    /\ IdleThreads
    /\ IdleRequests
    /\ IdleDownload

NextMerge ==
    \/ \E w \in Workers, url \in Urls, logged \in BOOLEAN : ShardPage(w, url, logged)
    \/ \E url \in Urls : MainPage(url)
    \/ MainLog
    \/ Merge
    \/ MergeKilled

SpecMerge == InitMerge /\ [][NextMerge]_vars

\* validate_page_items applied to the input drawn by InitValidate
Validate ==
    /\ v_result = "none"
    /\ v_result' = IF validate_page_items(v_count, TotalPages, v_last)
                   THEN "valid" ELSE "invalid"
    /\ UNCHANGED <<cfgVars, conVars, reqVars, runVars, v_count, v_last, dlVars, dbVars>>

InitValidate ==
    /\ IdleConfig
    /\ min_items_per_page \in 0..MaxMinItems
    /\ IdleRun
    /\ v_count \in 0..MaxItemCount
    /\ v_last \in BOOLEAN
    /\ v_result = "none"
    /\ IdleStore
    /\ IdleThreads
    /\ IdleRequests
    /\ IdleDownload

SpecValidate == InitValidate /\ [][Validate]_vars

\* The items of one page being handled, on an empty docs/ tree
InitDownload ==
    /\ mode \in {"bpk", "enh"}
    /\ max_retries = 3
    /\ max_workers = 2
    /\ min_items_per_page = 18
    /\ site = [p \in Pages |-> FetchOutcomes]
    /\ pc = "items"
    /\ scraped_pages = {}
    /\ failed_pages = EmptyDict
    /\ total_items_scraped = 0
    /\ state_file = NoFile
    /\ status = [p \in Pages |-> "none"]
    /\ attempt = [p \in Pages |-> 0]
    /\ retry_count = [p \in Pages |-> 0]
    /\ last_items = [p \in Pages |-> 0]
    /\ last_error = [p \in Pages |-> ""]
    /\ fetches = [p \in Pages |-> 0]
    /\ page_queue = {}
    /\ retry_queue = <<>>
    /\ futures = {}
    /\ db_pages = {}
    /\ IdleValidate
    /\ IdleStore
    /\ IdleThreads
    /\ IdleRequests
    /\ download_pdfs \in BOOLEAN
    /\ item_page \in Pages
    /\ items \in ItemLists
    /\ item_pos = 1
    /\ disk = [path \in PdfPaths |-> "absent"]
    /\ dl_calls = <<>>
    /\ store_fault = "none"

NextDownload ==
    \/ BpkItem
    \/ BpkItemsDone
    \/ EnhItem
    \/ EnhItemsDone

SpecDownload == InitDownload /\ [][NextDownload]_vars

\* The pool threads of one enhanced scraper with downloads on, all idle
InitLimiter ==
    /\ mode = "enh"
    /\ max_retries = 3
    /\ max_workers = MaxPoolThreads
    /\ min_items_per_page = 18
    /\ site = [p \in Pages |-> FetchOutcomes]
    /\ IdleRun
    /\ IdleValidate
    /\ IdleStore
    /\ IdleThreads
    /\ download_pdfs = TRUE
    /\ item_page = 0
    /\ items = <<>>
    /\ item_pos = 1
    /\ disk = [path \in PdfPaths |-> "absent"]
    /\ dl_calls = <<>>
    /\ store_fault = "none"
    /\ rate_limiter = rate_limiter_permits
    /\ threads = [ph \in Phases |-> IF ph = "idle" THEN max_workers ELSE 0]
    /\ req = NoCall
    /\ sess = NoSessions

NextLimiter ==
    \/ LimAcquire
    \/ LimSend
    \/ LimRelease
    \/ LimDetail
    \/ LimDetailDone
    \/ LimArtifact
    \/ LimArtifactDone
    \/ LimTaskDone

SpecLimiter == InitLimiter /\ [][NextLimiter]_vars

\* One enhanced scraper about to issue a listing request
InitRequest ==
    /\ mode = "enh"
    /\ max_retries = 3
    /\ max_workers = 2
    /\ min_items_per_page = 18
    /\ site = [p \in Pages |-> FetchOutcomes]
    /\ IdleRun
    /\ IdleValidate
    /\ IdleStore
    /\ IdleThreads
    /\ IdleDownload
    /\ IdleRequests

NextRequest == ReqCall \/ ReqAttempt

SpecRequest == InitRequest /\ [][NextRequest]_vars

\* One scraper object whose threads have not asked for a session yet
InitSession ==
    /\ mode \in {"bpk", "enh"}
    /\ max_retries = 3
    /\ max_workers = 2
    /\ min_items_per_page = 18
    /\ site = [p \in Pages |-> FetchOutcomes]
    /\ IdleRun
    /\ IdleValidate
    /\ IdleStore
    /\ IdleThreads
    /\ IdleDownload
    /\ IdleRequests

NextSession ==
    \/ \E t \in ThreadIds : SessCall(t)
    \/ \E t \in ThreadIds : SessAcquire(t)
    \/ \E t \in ThreadIds : SessReturn(t)

SpecSession == InitSession /\ [][NextSession]_vars

\* One enhanced scraper whose pool threads have not taken their tasks yet
InitLocks ==
    /\ mode = "enh"
    /\ max_retries = 3
    /\ max_workers = MaxThreadIds
    /\ min_items_per_page = 18
    /\ site = [p \in Pages |-> FetchOutcomes]
    /\ IdleRun
    /\ IdleValidate
    /\ IdleStore
    /\ IdleThreads
    /\ IdleRequests
    /\ download_pdfs \in BOOLEAN
    /\ item_page = 0
    /\ items = <<>>
    /\ item_pos = 1
    /\ disk = [path \in PdfPaths |-> "absent"]
    /\ dl_calls = <<>>
    /\ store_fault = "none"

NextLocks ==
    \/ \E t \in ThreadIds : LkCall(t)
    \/ \E t \in LockThreads : LkEnter(t)
    \/ \E t \in ThreadIds : LkThrottle(t)
    \/ \E t \in ThreadIds : LkSessionExit(t)
    \/ \E t \in ThreadIds : LkResponse(t)
    \/ \E t \in ThreadIds : LkRateWait(t)
    \/ \E t \in ThreadIds : LkBackoff(t)
    \/ \E t \in ThreadIds : LkError(t)
    \/ \E t \in ThreadIds : LkItem(t)
    \/ \E t \in ThreadIds : LkDetailDone(t)
    \/ \E t \in ThreadIds : LkArtifactDone(t)
    \/ \E t \in ThreadIds : LkDlBackoff(t)
    \/ \E t \in ThreadIds : LkCurrentDownload(t)
    \/ \E t \in ThreadIds : LkStore(t)
    \/ \E t \in ThreadIds : LkTotal(t)
    \/ \E t \in ThreadIds : LkInsert(t)
    \/ \E t \in ThreadIds : LkCollect(t)
    \/ LkPostfix

SpecLocks == InitLocks /\ [][NextLocks]_vars

\* One enhanced scraper whose pool threads are about to request their pages
InitErrors ==
    /\ mode = "enh"
    /\ max_retries = 3
    /\ max_workers = MaxErrThreads
    /\ min_items_per_page = 18
    /\ site = [p \in Pages |-> FetchOutcomes]
    /\ IdleRun
    /\ IdleValidate
    /\ IdleStore
    /\ IdleThreads
    /\ IdleRequests
    /\ IdleDownload

NextErrors ==
    \/ \E t \in ErrThreads : ErrRequest(t)
    \/ \E t \in ErrThreads : ErrPage(t)
    \/ \E t \in ErrThreads : ErrCheck(t)
    \/ \E t \in ErrThreads : ErrCreate(t)
    \/ \E t \in ErrThreads : ErrAppend(t)
    \/ \E t \in ErrThreads : ErrResolve(t)
    \/ \E t \in ErrThreads : ErrData(t)
    \/ \E t \in ErrThreads : ErrRead(t)
    \/ \E t \in ErrThreads : ErrAdd(t)
    \/ \E t \in ErrThreads : ErrReturn(t)

SpecErrors == InitErrors /\ [][NextErrors]_vars

\* The steps of one run: Next without the restart of the process
NextRun ==
    \/ BpkLoad
    \/ \E p \in Pages : BpkStart(p)
    \/ \E p \in Pages : BpkAttempt(p)
    \/ \E p \in Pages : BpkHandle(p)
    \/ BpkInterrupt
    \/ BpkAbortSave
    \/ BpkFinish
    \/ EnhSeed
    \/ EnhLoop
    \/ \E p \in Pages : EnhScrape(p)
    \/ \E p \in Pages : EnhRecord(p)
    \/ EnhInterrupt
    \/ EnhFinish

\* What the scheduling guarantees: the main thread keeps running its loop,
\* every pool thread with a task keeps running (a network call returns or
\* times out: session.get has a timeout, tenacity stops after 5 attempts),
\* and leaving the with-block returns once the pool's threads are joined.
\* Nothing is assumed about interrupts.
RunFairness ==
    /\ WF_vars(BpkLoad)
    /\ \A p \in Pages : WF_vars(BpkStart(p))
    /\ \A p \in Pages : WF_vars(BpkAttempt(p))
    /\ \A p \in Pages : WF_vars(BpkHandle(p))
    /\ WF_vars(BpkAbortSave)
    /\ WF_vars(BpkFinish)
    /\ WF_vars(EnhSeed)
    /\ WF_vars(EnhLoop)
    /\ \A p \in Pages : WF_vars(EnhScrape(p))
    /\ \A p \in Pages : WF_vars(EnhRecord(p))
    /\ WF_vars(EnhFinish)

SpecLive == Init /\ [][NextRun]_vars /\ RunFairness

\* Catalog sizes that SpecSeed draws: small catalogs, and catalogs at and
\* just above the 2000 pages of line 681
MaxCatalog == 6
CatalogSizes == (1..MaxCatalog) \cup {max_pages_cap, max_pages_cap + 1}

\* fresh tasks that SpecSeed follows into the pool
MaxDispatch == 4

\* PriorityQueue.get(): the task with the smallest priority
queue_get(q) == CHOOSE x \in q : \A y \in q : x <= y

\* What the seeding steps leave alone
SeedFrame == UNCHANGED <<cfgVars, stateVars, taskVars, retry_queue, db_pages,
                         valVars, dlVars, dbVars, reqVars, data_lock,
                         progress_lock, task_pc, main_pc, held, errors, rec,
                         counted>>

\* scrape_all_with_validation, lines 667-683: get_total_pages() returns n and
\* the tasks are put into the priority queue
SeedQueue ==
    /\ pc = "start"
    /\ \E n \in CatalogSizes :
          /\ total_pages' = n
          /\ page_queue' = Range(seed_tasks(n))
    /\ pc' = "loop"
    /\ UNCHANGED <<futures, dispatched>>
    /\ SeedFrame

\* lines 693-696: while not page_queue.empty() and len(futures) <
\* self.max_workers: task = page_queue.get(); executor.submit(...)
SeedDispatch ==
    /\ pc = "loop"
    /\ page_queue # {}
    /\ Cardinality(futures) < max_workers
    /\ Cardinality(dispatched) < MaxDispatch
    /\ LET task == queue_get(page_queue)
       IN /\ page_queue' = page_queue \ {task}
          /\ futures' = futures \cup {task}
          /\ dispatched' = dispatched \cup {task}
    /\ UNCHANGED <<pc, total_pages>>
    /\ SeedFrame

\* lines 705-706: a future is done and leaves the set
SeedCollect ==
    /\ pc = "loop"
    /\ \E p \in futures : futures' = futures \ {p}
    /\ UNCHANGED <<pc, page_queue, total_pages, dispatched>>
    /\ SeedFrame

\* One enhanced scraper before get_total_pages()
InitSeed ==
    /\ mode = "enh"
    /\ max_retries = 3
    /\ max_workers \in 1..MaxThreadIds
    /\ min_items_per_page = 18
    /\ site = [p \in Pages |-> FetchOutcomes]
    /\ IdleRun
    /\ IdleValidate
    /\ IdleStore
    /\ IdleThreads
    /\ IdleRequests
    /\ IdleDownload

NextSeed == SeedQueue \/ SeedDispatch \/ SeedCollect

SpecSeed == InitSeed /\ [][NextSeed]_vars

-----------------------------------------------------------------------------
(* The properties *)

\* The page numbers that are keys of a failed_pages dict
FailedNumbers(fp) == {k.n : k \in DOMAIN fp}

\* C1: in every state of a run and in every checkpoint written, no page
\* number is in both scraped_pages and failed_pages.
C1_MutualExclusion ==
    /\ scraped_pages \cap FailedNumbers(failed_pages) = {}
    /\ state_file.exists =>
          state_file.scraped_pages \cap FailedNumbers(state_file.failed_pages) = {}

\* C2: when scrape_all_with_validation has finished without interrupt and
\* without the early exit, every seeded page is in scraped_pages or in
\* failed_pages: no page task disappears without a terminal outcome.
\* (Stated for max_retries >= 1, where every page is fetched at least once.)
C2_NoPageDisappears ==
    (pc = "done" /\ max_retries >= 1) =>
        \A p \in Pages :
            status[p] # "none" =>
                p \in scraped_pages \cup FailedNumbers(failed_pages)

\* C3: whenever process_page_task_enhanced handles a task whose fetch or
\* validation failed while retry_count < max_retries, the task is put on the
\* retry queue with retry_count incremented by exactly one.
C3_RetryRequeued ==
    [][\A p \in Pages :
          (/\ mode = "enh"
           /\ status[p] = "fetched" /\ status'[p] # "fetched"
           /\ last_error[p] # ""
           /\ retry_count[p] < max_retries)
          => (/\ retry_count'[p] = retry_count[p] + 1
              /\ p \in Range(retry_queue'))]_vars

\* C4: for every page, retry_count (enhanced) and the number of re-fetches
\* after the first attempt (BPK) never exceed max_retries, also in the
\* retry_count recorded when the page fails permanently.
C4_BoundedRetries ==
    /\ \A p \in Pages :
          /\ retry_count[p] <= max_retries
          /\ attempt[p] <= max_retries
          /\ fetches[p] > 0 => fetches[p] - 1 <= max_retries
    /\ mode = "enh" =>
          \A k \in DOMAIN failed_pages : failed_pages[k].retry_count <= max_retries

\* A task of the enhanced scraper whose retry_count has reached max_retries
C4_Witness ==
    \E p \in Pages :
        /\ mode = "enh" /\ max_retries = 1
        /\ status[p] = "ret_false" /\ retry_count[p] = max_retries

\* C5: with min_items_per_page = 18 and max_retries = 3, a page before the
\* last that gives 10 items on every fetch has been fetched 4 times (1 + 3
\* retries) when its task ends, and the task ends accepting the 10 items.
C5_DegradedAccept ==
    \A p \in Pages :
        (/\ p < TotalPages /\ site[p] = {10}
         /\ min_items_per_page = 18 /\ max_retries = 3
         /\ status[p] \in {"returned", "raised", "ret_true", "ret_false", "ret_exc"})
        => (/\ fetches[p] = max_retries + 1
            /\ status[p] \in {"returned", "ret_true", "ret_exc"}
            /\ last_items[p] = 10)

\* C6: validate_page_items(items, page, is_last_page = false) is true if and
\* only if len(items) >= min_items_per_page.
C6_OrdinaryPage ==
    (v_result # "none" /\ ~v_last) =>
        (v_result = "valid" <=> v_count >= min_items_per_page)

\* An ordinary page of exactly min_items_per_page items, found valid
C6_Witness ==
    /\ v_result = "valid" /\ ~v_last
    /\ v_count = min_items_per_page /\ v_count > 0

\* C7: a last page with zero items is a retry trigger in the BPK retry loop:
\* _scrape_page_with_retry returns it with zero items only when no retry is
\* left.
C7_LastPageRule ==
    \A p \in Pages :
        (/\ mode = "bpk" /\ p = TotalPages
         /\ status[p] = "returned" /\ fetches[p] > 0 /\ last_items[p] = 0)
        => ~bpk_may_retry(attempt[p])

\* C8: after merge_worker_databases has run, the canonical perda table has a
\* row for every detail_url that was in a shard, and every shard that was
\* merged has been deleted.
C8_MergeComplete ==
    \A i \in 1..Len(merges) :
        /\ \A w \in Workers :
              UrlsOf(merges[i].input[w].perda) \subseteq UrlsOf(merges[i].after)
        /\ \A w \in merges[i].merged : ~merges[i].left[w].exists

C10_LaterUpdateWins ==
    \A i \in 1..Len(merges) :
        \A w1, w2 \in Workers :
            \A r1 \in merges[i].input[w1].perda, r2 \in merges[i].input[w2].perda :
                (/\ w1 # w2 /\ r1.detail_url = r2.detail_url
                 /\ r1.updated_at < r2.updated_at)
                => LET rows == {c \in merges[i].after : c.detail_url = r1.detail_url}
                   IN /\ Cardinality(rows) = 1
                      /\ \A c \in rows : c.updated_at = r2.updated_at

-----------------------------------------------------------------------------
(* The checkpoint file followed alone *)

\* The error texts a failed page is stored with
ErrorTexts == {"error", "timeout"}

\* The failed_pages dicts of a run: int page numbers to error texts
FailedDicts ==
    UNION {[{IntKey(p) : p \in S} -> ErrorTexts] : S \in SUBSET Pages}

\* save_scraping_state runs to its end
CkSave ==
    /\ pc = "start"
    /\ state_file' = save_scraping_state(scraped_pages, failed_pages,
                                         total_items_scraped)
    /\ pc' = "saved"
    /\ UNCHANGED <<cfgVars, conVars, reqVars, scraped_pages, failed_pages, total_items_scraped,
                   taskVars, enhVars, db_pages, valVars, dlVars, dbVars>>

\* The process dies in save_scraping_state (lines 175-187): before the file
\* is opened, between open(..., 'w') and the end of json.dump, or after it
CkCrash ==
    /\ pc = "start"
    /\ state_file' \in {state_file, Truncated,
                        save_scraping_state(scraped_pages, failed_pages,
                                            total_items_scraped)}
    /\ pc' = "crashed"
    /\ UNCHANGED <<cfgVars, conVars, reqVars, scraped_pages, failed_pages, total_items_scraped,
                   taskVars, enhVars, db_pages, valVars, dlVars, dbVars>>

\* A new process constructs the scraper (lines 112-119) and calls
\* load_scraping_state
CkLoad ==
    /\ pc \in {"start", "saved", "crashed"}
    /\ LET st == load_scraping_state(state_file, {}, EmptyDict, 0)
       IN /\ scraped_pages' = st.scraped_pages
          /\ failed_pages' = st.failed_pages
          /\ total_items_scraped' = st.total_items
          /\ pc' = IF st.raised THEN "load_raised" ELSE "loaded"
    /\ UNCHANGED <<cfgVars, conVars, reqVars, state_file, taskVars, enhVars, db_pages, valVars, dlVars,
                   dbVars>>

InitCheckpoint ==
    /\ IdleConfig
    /\ min_items_per_page = 18
    /\ pc = "start"
    /\ scraped_pages \in SUBSET Pages
    /\ failed_pages \in FailedDicts
    /\ total_items_scraped \in 0..MaxTotalItems
    /\ state_file \in {NoFile, save_scraping_state({}, EmptyDict, 0)}
    /\ status = [p \in Pages |-> "none"]
    /\ attempt = [p \in Pages |-> 0]
    /\ retry_count = [p \in Pages |-> 0]
    /\ last_items = [p \in Pages |-> 0]
    /\ last_error = [p \in Pages |-> ""]
    /\ fetches = [p \in Pages |-> 0]
    /\ page_queue = {}
    /\ retry_queue = <<>>
    /\ futures = {}
    /\ db_pages = {}
    /\ IdleValidate
    /\ IdleStore
    /\ IdleThreads
    /\ IdleRequests
    /\ IdleDownload

NextCheckpoint == CkSave \/ CkCrash \/ CkLoad

SpecCheckpoint == InitCheckpoint /\ [][NextCheckpoint]_vars

C14_CorruptIsAbsent ==
    (pc \in {"loaded", "load_raised"} /\ (~state_file.exists \/ ~state_file.parses))
        => (/\ pc = "loaded"
            /\ scraped_pages = {}
            /\ failed_pages = EmptyDict
            /\ total_items_scraped = 0)

\* A truncated state file has been loaded
C14_Witness ==
    pc = "loaded" /\ state_file.exists /\ ~state_file.parses

\* C15: when the process dies during save_scraping_state, the state file
\* holds the state saved before or the whole new state.
C15_AtomicSave ==
    [][pc' = "crashed"
       => \/ state_file' = state_file
          \/ state_file' = save_scraping_state(scraped_pages, failed_pages,
                                               total_items_scraped)]_vars

\* C11: when the merge of one shard raises, the other shards are still
\* merged: after merge_worker_databases every shard is either merged and
\* deleted, or its own merge raised and its file is left as it was; no shard
\* is passed over because the merge of another one raised.
C11_FailureIsolated ==
    \A i \in 1..Len(merges) :
        \A w \in Workers :
            merges[i].input[w].exists =>
                \/ w \in merges[i].merged /\ ~merges[i].left[w].exists
                \/ w \notin merges[i].blocked
                      /\ merges[i].left[w] = merges[i].input[w]

\* C12: a merge_worker_databases that runs after a killed one (with nothing
\* written in between) merges and deletes every shard still on disk, and the
\* canonical store then holds exactly one row for every detail_url of the
\* shards.
C12_MergeResumable ==
    \A j \in 1..Len(kills) :
        LET i == kills[j].at + 1
        IN (/\ i <= Len(merges)
            /\ merges[i].input = kills[j].left
            /\ merges[i].before = kills[j].after)
           => (/\ \A w \in Workers : ~merges[i].left[w].exists
               /\ \A w \in Workers :
                     UrlsOf(kills[j].input[w].perda) \subseteq UrlsOf(merges[i].after)
               /\ \A r1, r2 \in merges[i].after :
                     r1.detail_url = r2.detail_url => r1 = r2)

\* The main thread is inside a run: the state file on disk is the one the
\* run before left
InsideRun == pc \in {"pool", "loop", "leaving", "leaving_early", "aborting"}

\* C16: in a resumed run no page of the checkpoint's scraped_pages is fetched
\* again, and every page of the checkpoint's failed_pages that is not marked
\* final_failure (the BPK scraper marks none) is scheduled again.
C16_Resume ==
    (InsideRun /\ state_file.exists /\ state_file.parses) =>
        \A p \in Pages :
            /\ p \in state_file.scraped_pages => fetches[p] = 0
            /\ (mode = "bpk" /\ p \in FailedNumbers(state_file.failed_pages))
                  => status[p] # "none"

\* C17: after an interrupt has arrived, no page task that had not started is
\* started before the state is saved.
C17_SaveBeforeNewTasks ==
    [][pc = "aborting"
       => \A p \in Pages : status[p] = "queued" => status'[p] = "queued"]_vars

\* C18: a page that is in flight when the interrupt arrives is in neither
\* scraped_pages nor failed_pages of the checkpoint then written: it enters
\* neither set after the interrupt.
C18_InFlightNotRecorded ==
    [][pc = "aborting"
       => \A p \in Pages :
             status[p] \in {"running", "fetched"}
                => /\ p \in scraped_pages' => p \in scraped_pages
                   /\ p \in FailedNumbers(failed_pages')
                         => p \in FailedNumbers(failed_pages)]_vars

\* Two download_pdf calls for the same destination, the earlier one first
SamePathCalls ==
    {c \in (DOMAIN dl_calls) \X (DOMAIN dl_calls) :
        c[1] < c[2] /\ dl_calls[c[1]].path = dl_calls[c[2]].path}

\* C19, as the claim states it: two download_pdf calls with identical
\* arguments issue exactly one network request in total, and the second call
\* finds the destination present and returns its path without a request.
C19_OneRequestInTotal ==
    \A c \in SamePathCalls :
        /\ dl_calls[c[1]].requests + dl_calls[c[2]].requests = 1
        /\ dl_calls[c[2]].found
        /\ dl_calls[c[2]].requests = 0
        /\ dl_calls[c[2]].result = "path"

\* C19, as the code has it: after a download_pdf call that returned a path,
\* a later call with identical arguments finds the destination present,
\* issues no request and returns the path; the first call issued between one
\* and three requests (none when it found the destination itself), so the two
\* calls together issue as many requests as the first call made attempts.
C19_DedupAfterSuccess ==
    \A c \in SamePathCalls :
        dl_calls[c[1]].result = "path" =>
            /\ dl_calls[c[2]].found
            /\ dl_calls[c[2]].requests = 0
            /\ dl_calls[c[2]].result = "path"
            /\ dl_calls[c[1]].requests \in
                   (IF dl_calls[c[1]].found THEN {0} ELSE 1..download_attempts)

\* a first call that needed a retry before it returned the path, followed by
\* a second call for the same destination that issued no request
C19_Witness ==
    \E c \in SamePathCalls :
        /\ dl_calls[c[1]].result = "path"
        /\ dl_calls[c[1]].requests > 1
        /\ dl_calls[c[2]].found
        /\ dl_calls[c[2]].requests = 0

\* C20: a failed artifact download never fails the owning record or its
\* page.  For every item whose download_pdf returned none (it catches every
\* Exception, so it never raises into the item loop): the row written for the
\* item has an empty pdf_path; the row is written as soon as the store takes
\* it; when the page is done every item of the page was processed and
\* written and the page is in scraped_pages; and the handling of the page
\* only ends in failure when a store call raised.
C20_DownloadNonFatal ==
    \A i \in DOMAIN items :
        items[i].dl = "none" =>
            /\ items[i].pdf_path = ""
            /\ items[i].stored \in {"unwritten", ""}
            /\ (mode = "bpk" /\ item_pos > i) => items[i].stored = ""
            /\ pc = "page_done" =>
                  /\ items[i].stored = ""
                  /\ item_page \in scraped_pages
                  /\ \A k \in DOMAIN items :
                        items[k].dl # "pending" /\ items[k].stored # "unwritten"
            /\ pc \in {"page_failed", "aborting"} => store_fault # "none"

\* a page that is done although the download of an item failed, with a later
\* item of the page handled after the failure
C20_Witness ==
    /\ pc = "page_done"
    /\ item_page \in scraped_pages
    /\ \E i \in DOMAIN items :
          /\ items[i].dl = "none"
          /\ items[i].stored = ""
          /\ i < Len(items)
          /\ items[i + 1].dl = "path"
          /\ items[i + 1].stored = "path"

\* C21: at every moment the number of page tasks that the worker pool is
\* executing is at most max_workers, and the enhanced scheduler holds at most
\* max_workers submitted futures (it submits no further task while
\* max_workers are in flight).
C21_PoolBound ==
    /\ mode = "bpk" => Cardinality(Running) <= max_workers
    /\ mode = "enh" => /\ Cardinality(EnhInFlight) <= max_workers
                       /\ Cardinality(futures) <= max_workers
                       /\ EnhInFlight \subseteq futures

\* the pool is full (max_workers tasks in flight) while a further page waits
C21_Witness ==
    \/ /\ mode = "bpk"
       /\ Cardinality(Running) = max_workers
       /\ Queued # {}
    \/ /\ mode = "enh"
       /\ Cardinality(EnhInFlight) = max_workers
       /\ page_queue # {}

StoreWriteRaised(p) ==
    \/ /\ mode = "bpk" /\ pc = "pool"
       /\ status[p] = "returned" /\ last_items[p] > 0
       /\ status'[p] = "handled"
       /\ p \notin scraped_pages' \/ failed_pages' # failed_pages
    \/ /\ mode = "enh"
       /\ status[p] = "fetched" /\ status'[p] = "ret_exc"

\* C23: when writing a page's records to the store raises, the run stops
\* handling pages (the main thread leaves scrape_all_with_validation through
\* its checkpoint save) and the page is not recorded as an ordinary failed
\* page.
C23_StoreFaultHalts ==
    [][\A p \in Pages :
          StoreWriteRaised(p)
             => /\ pc' = "aborting"
                /\ FailedNumbers(failed_pages') = FailedNumbers(failed_pages)]_vars

\* C24: process_page_task_enhanced on a task with retry_count = max_retries.
\* The scrape never reports the page as low_items (a page whose count fails
\* validation is accepted); a page without an error is put in scraped_pages
\* with its items added to total_items_scraped; a page with an error is put
\* in failed_pages with final_failure and retry_count = max_retries, and
\* nothing of it is accepted; in no case is the task queued again.  (A page
\* whose log_scraping raised counts as a page with an error.)
C24_LastTryOutcome ==
    [][\A p \in Pages :
          (mode = "enh" /\ retry_count[p] = max_retries) =>
             /\ (status[p] = "running" /\ status'[p] = "fetched")
                   => last_error'[p] \in {"", "fetch", "unexpected"}
             /\ (status[p] = "fetched" /\ status'[p] # "fetched")
                   => /\ retry_queue' = retry_queue
                      /\ p \notin page_queue'
                      /\ retry_count'[p] = max_retries
                      /\ IF last_error[p] = ""
                         THEN /\ p \in scraped_pages'
                              /\ total_items_scraped'
                                    = total_items_scraped + last_items[p]
                              /\ failed_pages' = failed_pages
                         ELSE /\ IntKey(p) \in DOMAIN failed_pages'
                              /\ failed_pages'[IntKey(p)]
                                    = [error |-> last_error[p],
                                       retry_count |-> max_retries,
                                       final_failure |-> TRUE]
                              /\ scraped_pages' = scraped_pages
                              /\ total_items_scraped' = total_items_scraped]_vars

\* with retry_count = max_retries, a page that is not the last one was
\* accepted with fewer items than min_items_per_page while another page's
\* request failed and was recorded as a final failure
C24_Witness ==
    /\ mode = "enh"
    /\ \E p, q \in Pages :
          /\ retry_count[p] = max_retries /\ retry_count[q] = max_retries
          /\ status[p] = "ret_true"
          /\ ~validate_page_items(last_items[p], p, p = TotalPages)
          /\ p \in scraped_pages
          /\ total_items_scraped >= last_items[p]
          /\ status[q] = "ret_false"
          /\ IntKey(q) \in DOMAIN failed_pages
          /\ failed_pages[IntKey(q)].final_failure
          /\ q \notin scraped_pages

\* C25, as the claim states it: an empty item list is never valid, whatever
\* the page, is_last_page and the configured min_items_per_page; and a
\* one-item last page is always valid.
C25_EmptyNeverValid ==
    v_result # "none" =>
        /\ v_count = 0 => v_result = "invalid"
        /\ (v_count = 1 /\ v_last) => v_result = "valid"

\* C25, as the code has it: an empty item list is invalid on the last page,
\* and on any other page when min_items_per_page is at least 1 (with
\* min_items_per_page <= 0 the test len(items) < min_items_per_page lets the
\* empty list through); a one-item last page is always valid.
C25_EmptyInvalidForPositiveMin ==
    v_result # "none" =>
        /\ (v_count = 0 /\ (v_last \/ min_items_per_page >= 1))
              => v_result = "invalid"
        /\ (v_count = 1 /\ v_last) => v_result = "valid"

\* an empty list refused on an ordinary page under a positive threshold
C25_Witness ==
    /\ v_result = "invalid" /\ v_count = 0 /\ ~v_last
    /\ min_items_per_page >= 1

\* A step of page p's handling that writes to the canonical store self.db:
\* BPK, the except branch of the future loop (self.db.log_scraping, line
\* 372); enhanced, self.db.log_scraping of scrape_page_enhanced (lines 522,
\* 533) and self.db.insert_many_perda of the page task (line 602)
CanonicalWrite(p) ==
    \/ /\ mode = "bpk"
       /\ status[p] \in {"returned", "raised"} /\ status'[p] = "handled"
       /\ failed_pages' # failed_pages
    \/ /\ mode = "enh"
       /\ status[p] = "running" /\ status'[p] = "fetched"
       /\ last_error'[p] \in {"", "unexpected"}
    \/ /\ mode = "enh"
       /\ status[p] = "fetched" /\ db_pages' # db_pages

\* No task of the pool is waiting or being executed
PoolDrained ==
    \A q \in Pages : status[q] \notin {"queued", "running", "fetched"}

\* C26: the merge starts only after every worker task has finished, and
\* nothing writes to the canonical store while tasks of the pool are still
\* waiting or running.
C26_SingleWriter ==
    [][/\ (mode = "bpk" /\ pc = "pool" /\ pc' = "done") => PoolDrained
       /\ \A p \in Pages : CanonicalWrite(p) => PoolDrained]_vars

\* C27: during the concurrent phase the records of an accepted page are
\* written to the shard of the page's worker (the page's index among the
\* pages to scrape, modulo max_workers) and never directly to the canonical
\* store.
C27_OwnShardOnly ==
    [][\A p \in Pages :
          (p \in db_pages' /\ p \notin db_pages)
             => /\ record_store(p).kind = "shard"
                /\ record_store(p).worker = page_to_worker(p)
                /\ record_store(p).worker \in 0..(max_workers - 1)]_vars

\* C28: one download_pdf call issues at most 3 requests, sleeps 2^attempt
\* seconds after every failed attempt that is followed by another, and
\* returns none after the third failure; a response with an html / text
\* content type ends the call at once: its body is not written to the
\* destination and none is returned.
C28_RetryAndSniff ==
    \A i \in DOMAIN dl_calls :
        LET c == dl_calls[i]
        IN /\ c.requests <= download_attempts
           /\ c.requests >= 1
                 => c.slept = [a \in 1..(c.requests - 1) |-> 2 ^ (a - 1)]
           /\ (c.requests = download_attempts
                  /\ c.last \in {"http_error", "stream_error"})
                 => c.result = "none"
           /\ c.last = "html" => (c.result = "none" /\ c.after # "html")

\* C29: when a listing request of a page gets HTTP 429, the call records one
\* rate_limit error for the page, sleeps the duration of the server's
\* Retry-After (the default when the header is missing) and retries; a call
\* makes at most 5 attempts, and after the fifth failure the failure is raised
\* to the caller.
C29_RateLimitRetry ==
    [][/\ req'.attempt <= stop_after_attempt
       /\ (req.pc = "attempt" /\ req'.last.status = "429" /\ req.has_page)
             => /\ req'.rate_limit_errors = req.rate_limit_errors + 1
                /\ req'.retry_after_slept = req.retry_after_slept
                      + (IF req'.last.retry_after.kind = "absent"
                         THEN retry_after_default
                         ELSE req'.last.retry_after.secs)
                /\ IF req.attempt < stop_after_attempt
                   THEN req'.pc = "attempt" /\ req'.attempt = req.attempt + 1
                   ELSE req'.pc = "retry_error"]_vars

\* C30: every network session is used by one thread only.  No session is
\* handed to two different threads, a thread gets the same session from
\* every call, and however the first calls of different threads interleave,
\* at most one session is created per thread (and none for a thread that has
\* not been served).
C30_SessionPerWorker ==
    /\ \A t, u \in ThreadIds : t # u => sess.given[t] \cap sess.given[u] = {}
    /\ \A t \in ThreadIds : Cardinality(sess.given[t]) <= 1
    /\ sess.created = Cardinality({t \in ThreadIds : sess.given[t] # {}})
    /\ sess.created = Cardinality(DOMAIN sess.sessions)

\* two threads have each been served twice, each with a session of its own
C30_Witness ==
    \E t, u \in ThreadIds :
        /\ t # u
        /\ sess.calls[t] = MaxSessionCalls /\ sess.pc[t] = "out"
        /\ sess.calls[u] = MaxSessionCalls /\ sess.pc[u] = "out"
        /\ Cardinality(sess.given[t] \cup sess.given[u]) = 2

\* a thread waits for a lock that is not free
Blocked(t) == wants(pc_of(t)) # "" /\ ~available(wants(pc_of(t)))

\* C31: a pool thread that is suspended (in a request, a download or a
\* sleep) holds no lock or permit that another thread is waiting for: no
\* other worker, and not the scheduler, waits for the suspended thread
C31_SuspendedBlocksNobody ==
    \A t \in ThreadIds :
        task_pc[t] \in Suspended
           => ~\E u \in LockThreads \ {t} :
                 Blocked(u) /\ wants(pc_of(u)) \in held[t]

\* Each completed record_error call has left its record in the tracker
RecordsNeverLost ==
    \A t \in ErrThreads : Cardinality(RecordsOf(errors, t)) = rec[t].calls

\* total_items_scraped is the sum of the items of the pages whose `+=` has
\* completed
TotalNeverLost ==
    total_items_scraped
       = AcceptedItems
            * Cardinality({t \in ErrThreads : rec[t].pc \in {"added", "returned"}})

\* C32: under every interleaving of the pool threads, no record_error call
\* loses or overwrites another thread's error record, and no update of
\* total_items_scraped is lost
C32_NoLostUpdate == RecordsNeverLost /\ TotalNeverLost

\* the page of thread t was scraped successfully: scrape_page_enhanced has
\* run its mark_resolved calls and returned the items
Succeeded(t) == rec[t].pc \in {"want_data", "want_progress", "add", "added", "returned"}

\* the records of page p that are not marked resolved
Unresolved(e, p) == {x \in RecordsOf(e, p) : ~e[x[1]][x[2]].resolved}

\* a step in which thread t's page succeeds leaves the resolved flags of
\* every other page's records as they were
OthersKept ==
    \A t \in ErrThreads :
        (~Succeeded(t) /\ Succeeded(t)')
           => \A p \in ErrThreads \ {t} : Unresolved(errors, p) = Unresolved(errors', p)

\* The other pages' records keep their resolved flags in every step
OtherPagesKept == [][OthersKept]_vars

\* C33: once a page that had recorded failures has been scraped
\* successfully (mark_resolved has been applied to it), no error record of
\* that page remains unresolved
C33_ResolvedAfterSuccess ==
    \A t \in ErrThreads : Succeeded(t) => Unresolved(errors, t) = {}

\* scrape_all_with_validation has returned or raised
RunOver == pc \in {"done", "done_early", "raised"}

\* C34: every run leaves its scheduling loop and ends; the loop is left
\* only when no task is queued, waiting for a retry or in flight, or when
\* total_items_scraped has reached the expected total; and the final
\* checkpoint is written only when no pool thread is still working
C34_RunTerminates ==
    /\ (pc = "start") ~> RunOver
    /\ [](pc = "leaving" => page_queue = {} /\ retry_queue = <<>> /\ futures = {})
    /\ [](pc = "leaving_early" => total_items_scraped >= total_expected)
    /\ [](RunOver => /\ Running = {} /\ EnhInFlight = {}
                      /\ mode = "bpk" => Queued = {}
                      /\ state_file # NoFile)

\* C34 witness: a run of each scraper has ended after one page was scraped
\* and another failed
C34_Witness ==
    /\ pc = "done"
    /\ scraped_pages # {}
    /\ failed_pages # EmptyDict

\* The same for the catalogs of at most 2000 pages
SeededUpToCap ==
    (pc = "loop" /\ total_pages <= max_pages_cap) =>
       /\ Len(seed_tasks(total_pages)) = total_pages
       /\ \A i \in 1..Len(seed_tasks(total_pages)) : seed_tasks(total_pages)[i] = i
       /\ dispatched = 1..Cardinality(dispatched)

\* C35: for a catalog of total_pages pages, the tasks seeded are the pages
\* 1..total_pages, each exactly once, and the fresh tasks handed to the pool
\* so far are the smallest page numbers (no page was submitted before a
\* smaller one)
C35_SeededOnceInOrder ==
    pc = "loop" =>
       /\ Len(seed_tasks(total_pages)) = total_pages
       /\ \A i \in 1..Len(seed_tasks(total_pages)) : seed_tasks(total_pages)[i] = i
       /\ dispatched = 1..Cardinality(dispatched)

\* the detail_urls held by the shards that a merge run found
ShardUrls(files) == UNION {UrlsOf(files[w].perda) : w \in Workers}

C37_CountedOnlyIfStored ==
    [][\A p \in Pages :
          (status[p] \in {"returned", "fetched"} /\ status'[p] # status[p])
             => ((p \in scraped_pages' \ scraped_pages
                    \/ total_items_scraped' # total_items_scraped)
                 => p \in db_pages')]_vars

\* C38: whenever download_pdf returns a path, by a fresh download or by the
\* `already exists` skip, the file at that path was written completely: no
\* returned path refers to a file that a failed download left half-written
C38_ReturnedPathIsComplete ==
    \A i \in 1..Len(dl_calls) :
        dl_calls[i].result = "path" => dl_calls[i].after # "partial"

-----------------------------------------------------------------------------
(* The checkpoint's total and its pages *)

\* sum of c[p] over the pages p of S
RECURSIVE SumCounted(_, _)
SumCounted(c, S) ==
    IF S = {} THEN 0
    ELSE LET p == CHOOSE x \in S : TRUE
         IN c[p] + SumCounted(c, S \ {p})

\* this step ends a run with save_scraping_state
CheckpointSaved == pc \notin {"done", "done_early", "raised"}
                   /\ pc' \in {"done", "done_early", "raised"}

\* the pages of the checkpoint that a run found, none when there is no
\* readable one
CheckpointPages ==
    IF state_file.exists /\ state_file.parses THEN state_file.scraped_pages
    ELSE {}

\* the file written holds the sum of the counts of exactly its pages
TotalIsSum ==
    CheckpointSaved
    => state_file'.total_items = SumCounted(counted', state_file'.scraped_pages)

\* the file written has every page that the file before it had
PagesKept == CheckpointSaved => CheckpointPages \subseteq state_file'.scraped_pages

\* a page of the checkpoint, or of scraped_pages, is not counted again
CountedOnce ==
    \A p \in Pages :
        p \in CheckpointPages \cup scraped_pages
        => /\ counted'[p] = counted[p]
           /\ p \in scraped_pages => p \in scraped_pages' \/ pc' = "start"

TotalIsSumAtEverySave == [][TotalIsSum]_vars

\* C39: every checkpoint save writes as total_items the sum of the accepted
\* item counts of exactly the pages in scraped_pages; a page is counted once,
\* within a run and across save, load and resume, is added to scraped_pages
\* at most once and is never removed from it.
C39_TotalIsSumOfScrapedPages ==
    [][TotalIsSum /\ PagesKept /\ CountedOnce]_vars

\* the three hold of every run of the BPK scraper, which loads its checkpoint
BpkTotalIsSumOfScrapedPages ==
    [][mode = "bpk" => TotalIsSum /\ PagesKept /\ CountedOnce]_vars

-----------------------------------------------------------------------------
(* Lock order and release *)

\* the threads that hold lock l or one of its permits
holders(l) == {t \in LockThreads : l \in held[t]}

\* A set of threads that all wait, each for a lock held only inside the set
Deadlocked(D) ==
    /\ D # {}
    /\ \A t \in D : /\ Blocked(t)
                    /\ holders(wants(pc_of(t))) \subseteq D

\* the nesting level at which the code takes lock l: self.rate_limiter (276)
\* and self.data_lock (541) are taken by a thread that holds nothing,
\* self.session_lock (219) and self.progress_lock (586, 598, 724) inside
\* them or alone
lock_level(l) ==
    IF l \in {"rate_limiter", "data_lock"} THEN 1 ELSE 2

\* a thread that is about to take a lock holds only locks of a lower level
OrderKept ==
    \A t \in LockThreads :
        wants(pc_of(t)) # ""
        => \A l \in held[t] : lock_level(l) < lock_level(wants(pc_of(t)))

\* positions outside every with-block
Outside == {"idle", "want_permit", "backoff", "want_data", "want_data_error",
            "returned_true", "returned_false", "raised", "collected", "loop",
            "want_progress"}

\* a thread outside every with-block holds nothing, and a lock that nobody
\* holds is free
AllReleased ==
    /\ \A t \in LockThreads : pc_of(t) \in Outside => held[t] = {}
    /\ \A l \in LockNames : holders(l) = {} => available(l)

\* C40: workers and the scheduler thread never deadlock: the locks and the
\* semaphore are taken in one order (progress_lock and session_lock inside
\* data_lock or alone, data_lock never inside them), and whatever a thread
\* took it has given back when it is outside the with-block, also when the
\* body raised.
C40_NoDeadlock ==
    /\ \A D \in SUBSET LockThreads : ~Deadlocked(D)
    /\ OrderKept
    /\ AllReleased

\* an insert has raised under data_lock, the lock is with another thread
\* since, and a third thread waits for it
C40_Witness ==
    \E t, v, w \in ThreadIds :
        /\ task_pc[t] = "raised"
        /\ data_lock = v /\ v # t
        /\ Blocked(w) /\ wants(pc_of(w)) = "data_lock"

=============================================================================
